---- MODULE Spec2Model ----
(***************************************************************************)
(* Device pair registry (DeviceManager), synchronization router (the       *)
(* handlers of the plugin entry point), and the two device controllers     *)
(* (SonosController, FusionController) with their pollers and the          *)
(* commands they keep in flight to the physical devices.                   *)
(***************************************************************************)
EXTENDS Integers, Sequences, FiniteSets, TLC

\* ------------------------------------------------------------------ bounds
\* A poller's turn starts only while fewer than MaxPending commands are unanswered.
MaxPending == 1
\* plugin.start runs at most MaxCycles times.
MaxCycles == 2
\* The registries of the statistics hold up to MaxPairs pairs, and the clock
\* (Date.now()) runs up to MaxTime.
MaxPairs == 12
\* Commands in flight beyond which the queued pollers and bus controls wait.
MaxQueue == 3
\* Volume adjustments of one source that may overlap.
MaxAdjusts == 2
MaxTime == 14

\* ------------------------------------------------------- program constants
SonosMaxVolume == 100   \* percent range of the source device
FusionMaxVolume == 40   \* native range of the amp
NullVolume == -1        \* currentVolume: null

Names == {"p1", "p2"}
SonosIds == {"s1", "s2"}
FusionIds == {"f1", "f2"}

NoSel == "null"         \* currentInput: null

RecentLimit == 10       \* slice(0, 10)
ActiveWindow == 300000  \* Date.now() - timestamp < 300000

\* The periodic timers the components create when they start.
TimerKinds ==
  {"sonosPolling", "sonosDiscovery", "fusionDiscovery", "fusionPolling",
   "fusionNetworkScan", "nmeaHeartbeat"}
\* The timers whose handle the component keeps and clears in stop.
ClearedKinds ==
  {"sonosPolling", "sonosDiscovery", "fusionDiscovery", "fusionPolling",
   "fusionNetworkScan"}

VARIABLES
  started,        \* plugin.start has run
  devicePairs,    \* DeviceManager.devicePairs: the Map, in insertion order
  managerDevices, \* SonosManager.Devices: source devices discovery knows
  sonosDevices,   \* SonosController.devices: tracked source devices
  fusionDevices,  \* FusionController.devices: amp id -> cached record
  srcState,       \* the source device's transport state, as it reports it
  srcVolume,      \* the source device's volume, 0..100
  ampVolume,      \* the amp's volume in native units, 0..40
  ampInput,       \* the amp's selected input number (0: none yet)
  inflight,       \* commands sent to a device and not yet answered
  emitted,        \* events emitted during the last step, in order
  calls,          \* router -> controller calls made during the last step
  published,      \* status publications (app.handleMessage) of the last step
  step,           \* the operation the last step performed
  srcFresh,       \* per source: "new" (not polled since it is tracked),
                  \* "clean" (unchanged since its last poll) or "dirty"
  ampCause,       \* per amp: "new" (not polled since it is tracked), or who
                  \* changed its volume since its last poll: "none",
                  \* "router" (a command of the plugin) or "external"
  timers,         \* per kind: the interval timers that are scheduled
  seen            \* what the run has shown so far, where Init opens the
                  \* record: per pair name the last life-cycle event, per
                  \* source the overlapping volume adjustments asked of it

vars == <<started, devicePairs, managerDevices, sonosDevices, fusionDevices,
          srcState, srcVolume, ampVolume, ampInput, inflight, emitted, calls,
          published, step, srcFresh, ampCause, timers, seen>>

\* ----------------------------------------------------------------- helpers
\* String.prototype.toLowerCase on the strings the model uses.
ToLowerCase(s) ==
  CASE s = "AUX1" -> "aux1"
    [] s = "Aux2" -> "aux2"
    [] s = "USB" -> "usb"
    [] s = "HDMI" -> "hdmi"
    [] s = "PLAYING" -> "playing"
    [] s = "PAUSED_PLAYBACK" -> "paused_playback"
    [] s = "PAUSED" -> "paused"
    [] s = "STOPPED" -> "stopped"
    [] s = "TRANSITIONING" -> "transitioning"
    [] s = "NO_MEDIA_PRESENT" -> "no_media_present"
    [] OTHER -> s

\* Math.round(num / den) for num >= 0, den > 0: halves round up.
MathRound(num, den) == (2 * num + den) \div (2 * den)

\* The presence test that takes an empty string for a value.
FalsyMissingOnly(config, field) == field \notin DOMAIN config

\* !config[field]: the field is missing or the empty string.
Falsy(config, field) == field \notin DOMAIN config \/ config[field] = ""

\* config.flag !== false
NotFalse(config, field) == field \notin DOMAIN config \/ config[field] # FALSE

RequiredFields == <<"name", "sonosDevice", "fusionDevice", "fusionInput">>
ValidInputs == {"aux1", "aux2", "aux3", "usb", "bluetooth", "am", "fm"}

\* Positions of a Map entry / the entries as the Map iterates them.
KeyIndex(pairs, key) == {i \in 1..Len(pairs) : pairs[i].key = key}
HasKey(pairs, key) == KeyIndex(pairs, key) # {}
MapGet(pairs, key) == pairs[CHOOSE i \in KeyIndex(pairs, key) : TRUE]
MapSet(pairs, key, pair) ==
  IF HasKey(pairs, key)
  THEN [i \in 1..Len(pairs) |-> IF pairs[i].key = key THEN pair ELSE pairs[i]]
  ELSE Append(pairs, pair)
MapDelete(pairs, key) == SelectSeq(pairs, LAMBDA p : p.key # key)

\* Array.prototype.find over the Map's values: index of the first match, 0 if none.
FirstIndex(hits) ==
  IF hits = {} THEN 0 ELSE CHOOSE i \in hits : \A j \in hits : i <= j

Event(type, dev, vol, str) == [type |-> type, dev |-> dev, vol |-> vol, str |-> str]
Call(target, op, dev, vol, sel) ==
  [target |-> target, op |-> op, dev |-> dev, vol |-> vol, sel |-> sel]
Command(target, op, dev, wire, vol, sel) ==
  [target |-> target, op |-> op, dev |-> dev, wire |-> wire, vol |-> vol,
   sel |-> sel, live |-> TRUE]

\* ------------------------------------------------------------ DeviceManager
\* lastActivity: null
NoActivity == [type |-> "null", timestamp |-> 0]

validatePairConfig(config) ==
  /\ \A i \in 1..Len(RequiredFields) : ~Falsy(config, RequiredFields[i])
  /\ ToLowerCase(config.fusionInput) \in ValidInputs

NewPair(config) ==
  [key |-> config.name,
   name |-> config.name,
   sonosDevice |-> config.sonosDevice,
   fusionDevice |-> config.fusionDevice,
   fusionInput |-> ToLowerCase(config.fusionInput),
   volumeSync |-> NotFalse(config, "volumeSync"),
   enabled |-> NotFalse(config, "enabled"),
   lastActivity |-> NoActivity,
   status |-> "ready"]

\* Object.assign(pair, updates): the Map key is no property of the pair.
AssignPair(pair, updates) ==
  [f \in DOMAIN pair |->
     IF f # "key" /\ f \in DOMAIN updates THEN updates[f] ELSE pair[f]]

getPairByName(pairs, name) == KeyIndex(pairs, name)

\* The lookup by source device that also finds disabled pairs.
getPairBySonosDeviceAny(pairs, deviceId) ==
  FirstIndex({i \in 1..Len(pairs) : pairs[i].sonosDevice = deviceId})

getPairBySonosDevice(pairs, deviceId) ==
  FirstIndex({i \in 1..Len(pairs) :
                pairs[i].sonosDevice = deviceId /\ pairs[i].enabled = TRUE})

\* A lookup by amp device that never finds a pair.
getPairByFusionDeviceNone(pairs, deviceId) == 0

getPairByFusionDevice(pairs, deviceId) ==
  FirstIndex({i \in 1..Len(pairs) :
                pairs[i].fusionDevice = deviceId /\ pairs[i].enabled = TRUE})

\* The conflicts validateDeviceAssociation reports, as <<kind, pair name>>.
validateDeviceAssociation(pairs, sonosDevice, fusionDevice) ==
  LET si == getPairBySonosDevice(pairs, sonosDevice)
      fi == getPairByFusionDevice(pairs, fusionDevice)
      sc == IF si # 0 THEN <<<<"sonos", pairs[si].name>>>> ELSE <<>>
      fc == IF fi # 0 THEN <<<<"fusion", pairs[fi].name>>>> ELSE <<>>
  IN [valid |-> Len(sc \o fc) = 0, conflicts |-> sc \o fc]

\* --------------------------------------------------------------- controllers
\* A world w is the part of the state the synchronous call chains read and
\* write: w.pairs, w.sonos, w.fusion, w.inflight, w.emitted, w.calls,
\* w.published, w.srcFresh, w.ampCause, w.timers, and what they only read:
\* w.known (SonosManager.Devices) and w.managerUp (this.manager is set).

FreshFusionDevice == [currentVolume |-> NullVolume, currentInput |-> NoSel]

\* SonosController.findDeviceById: the manager's device of that id, if any.
SonosFindDeviceById(w, deviceId) == w.managerUp /\ deviceId \in w.known

\* SonosController.addDevice (its first poll is the poller's SonosPoll step).
SonosAddDevice(w, deviceId) ==
  IF deviceId \in w.sonos THEN w
  ELSE IF SonosFindDeviceById(w, deviceId)
       THEN [w EXCEPT !.sonos = @ \cup {deviceId}]
       ELSE w

SonosRemoveDevice(w, deviceId) ==
  IF deviceId \in w.sonos
  THEN [w EXCEPT !.sonos = @ \ {deviceId}, !.srcFresh[deviceId] = "new"]
  ELSE w

\* FusionController.findDeviceById: a lookup in the tracked devices themselves.
FusionFindDeviceById(w, deviceId) == deviceId \in DOMAIN w.fusion

FusionAddDevice(w, deviceId) ==
  IF deviceId \in DOMAIN w.fusion THEN w
  ELSE IF FusionFindDeviceById(w, deviceId)
       THEN [w EXCEPT !.fusion =
               [d \in DOMAIN @ \cup {deviceId} |->
                  IF d = deviceId THEN FreshFusionDevice ELSE @[d]]]
       ELSE w

\* Map.delete of a tracked amp: commands in flight keep the removed object.
FusionDrop(w, deviceId) ==
  [w EXCEPT !.fusion = [d \in DOMAIN @ \ {deviceId} |-> @[d]],
            !.ampCause[deviceId] = "new",
            !.inflight = [i \in 1..Len(@) |->
               IF @[i].target = "fusion" /\ @[i].dev = deviceId
               THEN [@[i] EXCEPT !.live = FALSE] ELSE @[i]]]

FusionRemoveDevice(w, deviceId) ==
  IF deviceId \in DOMAIN w.fusion THEN FusionDrop(w, deviceId) ELSE w

InputNumber(sel) ==
  CASE sel = "aux1" -> 1 [] sel = "aux2" -> 2 [] sel = "aux3" -> 3
    [] sel = "usb" -> 4 [] sel = "bluetooth" -> 5 [] sel = "am" -> 6
    [] sel = "fm" -> 7 [] OTHER -> 0

\* The request that overtakes the requests already on the wire.
SendFirst(w, command) == [w EXCEPT !.inflight = <<command>> \o @]

Send(w, command) == [w EXCEPT !.inflight = Append(@, command)]

\* FusionController.switchInput up to its await: the command is on the wire.
FusionSwitchInput(w, deviceId, inputSource) ==
  IF deviceId \notin DOMAIN w.fusion THEN w
  ELSE LET inputNumber == InputNumber(ToLowerCase(inputSource))
       IN IF inputNumber = 0 THEN w
          ELSE Send(w, Command("fusion", "setInput", deviceId, inputNumber,
                               NullVolume, inputSource))

\* The native volume with the scaling truncated instead of rounded.
FusionVolumeOfFloor(volume) == (volume * FusionMaxVolume) \div SonosMaxVolume

\* The native volume FusionController.setVolume puts on the wire.
FusionVolumeOf(volume) == MathRound(volume * FusionMaxVolume, SonosMaxVolume)

\* FusionController.setVolume up to its await.
FusionSetVolume(w, deviceId, volume) ==
  IF deviceId \notin DOMAIN w.fusion THEN w
  ELSE Send(w, Command("fusion", "setVolume", deviceId, FusionVolumeOf(volume),
                       volume, ""))

\* The value FusionController.setVolume caches once the amp has answered.
FusionCachedVolume(command) == command.vol

\* SonosController.setVolume up to its await.
SonosSetVolume(w, deviceId, volume) ==
  IF deviceId \notin w.sonos THEN w
  ELSE Send(w, Command("sonos", "setVolume", deviceId, volume, volume, ""))

\* SonosController.adjustVolume up to its first await: GetVolume is on the wire
\* and carries the change to apply to its answer.
SonosAdjustVolume(w, deviceId, volumeChange) ==
  IF deviceId \notin w.sonos THEN w
  ELSE Send(w, Command("sonos", "getVolume", deviceId, volumeChange, NullVolume, ""))

\* The clamp that holds the volume down and not up.
ClampVolumeAbove(volume) ==
  IF volume > SonosMaxVolume THEN SonosMaxVolume ELSE volume

\* Math.max(0, Math.min(100, currentVolume + volumeChange))
ClampVolume(volume) ==
  IF volume < 0 THEN 0 ELSE IF volume > SonosMaxVolume THEN SonosMaxVolume ELSE volume

\* The table of the earlier controller: no lower-casing, no paused_playback.
normalizePlaybackStateExact(state) ==
  CASE state = "playing" -> "playing"
    [] state = "paused" -> "paused"
    [] state = "stopped" -> "stopped"
    [] state = "transitioning" -> "transitioning"
    [] OTHER -> "unknown"

\* SonosController.normalizePlaybackState
normalizePlaybackState(state) ==
  LET s == ToLowerCase(state)
  IN CASE s = "playing" -> "playing"
       [] s \in {"paused_playback", "paused"} -> "paused"
       [] s = "stopped" -> "stopped"
       [] s = "transitioning" -> "transitioning"
       [] OTHER -> "unknown"

\* -------------------------------------------------------------------- router
Emit(w, e) == [w EXCEPT !.emitted = Append(@, e)]
Called(w, c) == [w EXCEPT !.calls = Append(@, c)]
Publish(w, pairName, field) == [w EXCEPT !.published = Append(@, <<pairName, field>>)]

handleDevicePairReady(w, pair) ==
  Publish(FusionAddDevice(SonosAddDevice(w, pair.sonosDevice), pair.fusionDevice),
          pair.name, "status")

handleDevicePairRemoved(w, pair) ==
  FusionRemoveDevice(SonosRemoveDevice(w, pair.sonosDevice), pair.fusionDevice)

\* The test that guards the input switch: the amp is switched for no state
\* but "stopped".
IsPlayingLoose(state) == state # "stopped"

\* if (state === 'playing')
IsPlaying(state) == state = "playing"

handlePlaybackStateChanged(w, device, state) ==
  LET i == getPairBySonosDevice(w.pairs, device)
  IN IF i = 0 THEN w
     ELSE LET pair == w.pairs[i]
              w1 == IF IsPlaying(state)
                    THEN FusionSwitchInput(
                           Called(w, Call("fusion", "switchInput", pair.fusionDevice,
                                          NullVolume, pair.fusionInput)),
                           pair.fusionDevice, pair.fusionInput)
                    ELSE w
          IN Publish(w1, pair.name, "playbackState")

\* The pair lookup of handleVolumeChanged without its sync gate.
SourceVolumeGateOpen(pairs, device) == getPairBySonosDevice(pairs, device)

\* The pair lookup and the sync gate of handleVolumeChanged.
SourceVolumeGate(pairs, device) ==
  LET i == getPairBySonosDevice(pairs, device)
  IN IF i = 0 \/ ~pairs[i].volumeSync THEN 0 ELSE i

handleVolumeChanged(w, device, volume) ==
  LET i == SourceVolumeGate(w.pairs, device)
  IN IF i = 0 THEN w
     ELSE LET pair == w.pairs[i]
          IN Publish(FusionSetVolume(
                       Called(w, Call("fusion", "setVolume", pair.fusionDevice,
                                      volume, "")),
                       pair.fusionDevice, volume),
                     pair.name, "volume")

\* The pair lookup and the sync gate of handleFusionVolumeChanged.
AmpVolumeGate(pairs, device) ==
  LET i == getPairByFusionDevice(pairs, device)
  IN IF i = 0 \/ ~pairs[i].volumeSync THEN 0 ELSE i

\* The volume handleFusionVolumeChanged hands to the source controller.
SourceVolumeOf(volume) == volume

handleFusionVolumeChanged(w, device, volume) ==
  LET i == AmpVolumeGate(w.pairs, device)
  IN IF i = 0 THEN w
     ELSE LET pair == w.pairs[i]
              v == SourceVolumeOf(volume)
          IN SonosSetVolume(
               Called(w, Call("sonos", "setVolume", pair.sonosDevice, v, "")),
               pair.sonosDevice, v)

\* -------------------------------------------- DeviceManager, the operations
\* emit(type, pair): the event carries the pair object.
PairEvent(type, pair) ==
  [type |-> type, key |-> pair.key, name |-> pair.name,
   sonosDevice |-> pair.sonosDevice, fusionDevice |-> pair.fusionDevice]

addDevicePair(w, config) ==
  LET pair == NewPair(config)
      w1 == [w EXCEPT !.pairs = MapSet(@, config.name, pair)]
  IN IF pair.enabled
     THEN handleDevicePairReady(Emit(w1, PairEvent("devicePairReady", pair)), pair)
     ELSE w1

\* The removal that announces every name it is given, stored or not.
removeDevicePairLoud(w, name) ==
  Emit([w EXCEPT !.pairs = MapDelete(@, name)],
       [type |-> "devicePairRemoved", key |-> name, name |-> name,
        sonosDevice |-> "", fusionDevice |-> ""])

removeDevicePair(w, name) ==
  IF HasKey(w.pairs, name)
  THEN LET pair == MapGet(w.pairs, name)
       IN handleDevicePairRemoved(
            Emit([w EXCEPT !.pairs = MapDelete(@, name)],
                 PairEvent("devicePairRemoved", pair)),
            pair)
  ELSE w

\* What updateDevicePair hands back to its caller: for an unknown name it logs
\* and returns, for a known one it returns at the end; it throws for neither.
updateDevicePairThrows(pairs, name) == FALSE

\* The readiness test without the memory of the old flag.
BecameEnabledLoose(oldEnabled, enabled) == enabled

\* if (!oldEnabled && pair.enabled)
BecameEnabled(oldEnabled, enabled) == ~oldEnabled /\ enabled

updateDevicePair(w, name, updates) ==
  IF ~HasKey(w.pairs, name) THEN w
  ELSE LET old == MapGet(w.pairs, name)
           pair == AssignPair(old, updates)
           w1 == [w EXCEPT !.pairs = MapSet(@, name, pair)]
       IN IF BecameEnabled(old.enabled, pair.enabled)
          THEN handleDevicePairReady(Emit(w1, PairEvent("devicePairReady", pair)), pair)
          ELSE IF old.enabled /\ ~pair.enabled
               THEN handleDevicePairRemoved(
                      Emit(w1, PairEvent("devicePairRemoved", pair)), pair)
               ELSE w1

\* The loop that gives up at the first invalid record.
RECURSIVE AddValidPairsAbort(_, _)
AddValidPairsAbort(w, configs) ==
  IF configs = <<>> THEN w
  ELSE IF validatePairConfig(Head(configs))
       THEN AddValidPairsAbort(addDevicePair(w, Head(configs)), Tail(configs))
       ELSE w

\* configs.forEach(c => validatePairConfig(c) ? addDevicePair(c) : log)
RECURSIVE AddValidPairs(_, _)
AddValidPairs(w, configs) ==
  IF configs = <<>> THEN w
  ELSE AddValidPairs(IF validatePairConfig(Head(configs))
                     THEN addDevicePair(w, Head(configs))
                     ELSE w,
                     Tail(configs))

loadDevicePairs(w, configs) == AddValidPairs(w, configs)

\* importConfiguration of a body whose devicePairs is an array.
importConfiguration(w, configs) ==
  AddValidPairs([w EXCEPT !.pairs = <<>>], configs)

\* A request body whose devicePairs is an array, a non-array value or absent.
BadBodies == {[kind |-> "absent"], [kind |-> "string", devicePairs |-> "p1"]}
IsPairList(body) == body.kind = "array"

\* importConfiguration that empties the Map before it looks at the body.
importConfigurationOfClearFirst(w, body) ==
  IF ~IsPairList(body)
  THEN [threw |-> TRUE, w |-> [w EXCEPT !.pairs = <<>>]]
  ELSE [threw |-> FALSE, w |-> importConfiguration(w, body.devicePairs)]

\* importConfiguration of any body: throws before it touches the Map.
importConfigurationOf(w, body) ==
  IF ~IsPairList(body)
  THEN [threw |-> TRUE, w |-> w]
  ELSE [threw |-> FALSE, w |-> importConfiguration(w, body.devicePairs)]

\* exportConfiguration: one record per stored pair, in Map order.
exportConfiguration(pairs) ==
  [i \in 1..Len(pairs) |->
     [name |-> pairs[i].name,
      sonosDevice |-> pairs[i].sonosDevice,
      fusionDevice |-> pairs[i].fusionDevice,
      fusionInput |-> pairs[i].fusionInput,
      volumeSync |-> pairs[i].volumeSync,
      enabled |-> pairs[i].enabled]]

\* The track handler that keeps quiet while the pair's volumeSync is off.
handleTrackChangedGated(w, device) ==
  LET i == SourceVolumeGate(w.pairs, device)
  IN IF i = 0 THEN w ELSE Publish(w, w.pairs[i].name, "currentTrack")

handleTrackChanged(w, device) ==
  LET i == getPairBySonosDevice(w.pairs, device)
  IN IF i = 0 THEN w ELSE Publish(w, w.pairs[i].name, "currentTrack")

\* handleNMEAVolumeControl: the pair is looked up by name alone.
handleNMEAVolumeControl(w, pairName, volumeChange) ==
  IF ~HasKey(w.pairs, pairName) THEN w
  ELSE LET pair == MapGet(w.pairs, pairName)
       IN SonosAdjustVolume(
            Called(w, Call("sonos", "adjustVolume", pair.sonosDevice,
                           volumeChange, "")),
            pair.sonosDevice, volumeChange)

\* DeviceManager.updatePairActivity at time t (Date.now()).
updatePairActivity(w, pairName, type, t) ==
  IF ~HasKey(w.pairs, pairName) THEN w
  ELSE [w EXCEPT !.pairs =
          MapSet(@, pairName,
                 [MapGet(@, pairName) EXCEPT
                    !.lastActivity = [type |-> type, timestamp |-> t]])]

\* _.orderBy(entries, ['timestamp'], ['desc']): a stable sort, so entries of
\* equal timestamp keep the order they came in. InsertDesc places an entry
\* that came after all of sorted.
InsertDescUnstable(sorted, e) ==
  LET before == {k \in 1..Len(sorted) : sorted[k].timestamp > e.timestamp}
      n == Cardinality(before)
  IN SubSeq(sorted, 1, n) \o <<e>> \o SubSeq(sorted, n + 1, Len(sorted))

InsertDesc(sorted, e) ==
  LET before == {k \in 1..Len(sorted) : sorted[k].timestamp >= e.timestamp}
      n == Cardinality(before)
  IN SubSeq(sorted, 1, n) \o <<e>> \o SubSeq(sorted, n + 1, Len(sorted))

RECURSIVE OrderByDesc(_, _)
OrderByDesc(sorted, entries) ==
  IF entries = <<>> THEN sorted
  ELSE OrderByDesc(InsertDesc(sorted, Head(entries)), Tail(entries))

\* Array.prototype.slice(0, n)
Slice(seq, n) == SubSeq(seq, 1, IF Len(seq) < n THEN Len(seq) ELSE n)

\* DeviceManager.getDeviceStatistics at time now.
getDeviceStatistics(pairs, now) ==
  LET withActivity == SelectSeq(pairs, LAMBDA p : p.lastActivity # NoActivity)
      entries == [k \in 1..Len(withActivity) |->
                    [pairName |-> withActivity[k].name,
                     timestamp |-> withActivity[k].lastActivity.timestamp,
                     type |-> withActivity[k].lastActivity.type]]
  IN [totalPairs |-> Len(pairs),
      enabledPairs |-> Cardinality({i \in 1..Len(pairs) : pairs[i].enabled}),
      activePairs |-> Cardinality({k \in 1..Len(withActivity) :
                        now - withActivity[k].lastActivity.timestamp < ActiveWindow}),
      recentActivity |-> Slice(OrderByDesc(<<>>, entries), RecentLimit)]

\* SonosController.pollDeviceState once its three queries have answered: the
\* emits run their handlers synchronously, in this order.
pollDeviceState(w, s, state, volume, hasTrack) ==
  LET w0 == Emit(w, Event("playbackStateChanged", s, NullVolume, state))
      w1 == handlePlaybackStateChanged(w0, s, state)
      w2 == handleVolumeChanged(Emit(w1, Event("volumeChanged", s, volume, "")),
                                s, volume)
      w3 == IF hasTrack
            THEN handleTrackChanged(Emit(w2, Event("trackChanged", s, NullVolume, "")), s)
            ELSE w2
  IN w3

\* ------------------------------------------------------------------- actions
World ==
  [pairs |-> devicePairs, sonos |-> sonosDevices, fusion |-> fusionDevices,
   inflight |-> inflight, emitted |-> <<>>, calls |-> <<>>, published |-> <<>>,
   srcFresh |-> srcFresh, ampCause |-> ampCause, timers |-> timers,
   known |-> managerDevices, managerUp |-> started]

Step(op, key, dev, status) == [op |-> op, key |-> key, dev |-> dev, status |-> status]

\* The record of a run that is not kept.
NotSeen ==
  [on |-> FALSE,
   life |-> [n \in Names |-> "none"],
   base |-> [s \in SonosIds |-> 0],
   sum |-> [s \in SonosIds |-> 0],
   asked |-> [s \in SonosIds |-> 0],
   failed |-> [s \in SonosIds |-> FALSE]]

\* The last life-cycle event of every pair, by the name it is stored under,
\* after these events.
RECURSIVE LifeAfter(_, _)
LifeAfter(life, events) ==
  IF events = <<>> THEN life
  ELSE LET e == Head(events)
           next == IF e.type = "devicePairReady" /\ e.key \in Names
                   THEN [life EXCEPT ![e.key] = "ready"]
                   ELSE IF e.type = "devicePairRemoved" /\ e.key \in Names
                        THEN [life EXCEPT ![e.key] = "removed"]
                        ELSE life
       IN LifeAfter(next, Tail(events))

\* An adjustVolume of this source is between its call and the answer to its
\* SetVolume.
AdjustPending(s) ==
  \E i \in 1..Len(inflight) :
    /\ inflight[i].target = "sonos" /\ inflight[i].dev = s
    /\ inflight[i].op \in {"getVolume", "setVolume"}

\* The changes the step's adjustVolume calls ask of a tracked source.
AskedOf(x, s) ==
  {k \in 1..Len(x.calls) :
     /\ x.calls[k].target = "sonos" /\ x.calls[k].op = "adjustVolume"
     /\ x.calls[k].dev = s /\ s \in sonosDevices}

\* The record after a step that leaves the world x: an adjustVolume that finds
\* none pending opens a new batch at the volume the source stands at.
Observe(x, label) ==
  IF ~seen.on THEN seen
  ELSE LET opens(s) == AskedOf(x, s) # {} /\ ~AdjustPending(s)
           change(s) == x.calls[CHOOSE k \in AskedOf(x, s) : TRUE].vol
           fails(s) == /\ label.status = 500 /\ label.dev = s
                       /\ label.op \in {"adjustVolumeRead", "complete"}
       IN [on |-> TRUE,
           life |-> LifeAfter(seen.life, x.emitted),
           base |-> [s \in SonosIds |->
                       IF opens(s) THEN srcVolume[s] ELSE seen.base[s]],
           sum |-> [s \in SonosIds |->
                      IF AskedOf(x, s) = {} THEN seen.sum[s]
                      ELSE (IF opens(s) THEN 0 ELSE seen.sum[s]) + change(s)],
           asked |-> [s \in SonosIds |->
                        IF AskedOf(x, s) = {} THEN seen.asked[s]
                        ELSE (IF opens(s) THEN 0 ELSE seen.asked[s]) + 1],
           failed |-> [s \in SonosIds |->
                         IF opens(s) THEN FALSE ELSE seen.failed[s] \/ fails(s)]]

Commit(w, label) ==
  \E x \in {w} :
    /\ devicePairs' = x.pairs
    /\ sonosDevices' = x.sonos
    /\ fusionDevices' = x.fusion
    /\ inflight' = x.inflight
    /\ emitted' = x.emitted
    /\ calls' = x.calls
    /\ published' = x.published
    /\ srcFresh' = x.srcFresh
    /\ ampCause' = x.ampCause
    /\ timers' = x.timers
    /\ seen' = Observe(x, label)
    /\ step' = label

Physical == <<srcState, srcVolume, ampVolume, ampInput>>

ConfigName(config) == IF "name" \in DOMAIN config THEN config.name ELSE ""

\* plugin.start: the registry loads options.devicePairs before either
\* controller has started, then the controllers start.
PluginStart(configs) ==
  /\ ~started
  /\ timers["nmeaHeartbeat"] < MaxCycles
  /\ started' = TRUE
  /\ Commit([loadDevicePairs(World, configs) EXCEPT
               !.timers = [k \in TimerKinds |-> @[k] + 1]],
            Step("start", "", "", 0))
  /\ UNCHANGED <<managerDevices, Physical>>

\* The stop that stops the controllers and the bus handler and leaves the
\* registry in the handlers' reach.
PluginStopControllersOnly ==
  /\ started
  /\ started' = FALSE
  /\ managerDevices' = {}
  /\ Commit([World EXCEPT
               !.sonos = {},
               !.fusion = <<>>,
               !.inflight = [i \in 1..Len(@) |->
                  IF @[i].target = "fusion" THEN [@[i] EXCEPT !.live = FALSE]
                  ELSE @[i]],
               !.srcFresh = [d \in SonosIds |-> "new"],
               !.ampCause = [d \in FusionIds |-> "new"],
               !.timers = [k \in TimerKinds |->
                             IF k \in ClearedKinds THEN 0 ELSE @[k]]],
            Step("stop", "", "", 0))
  /\ UNCHANGED Physical

\* plugin.stop: the registry is cleared and dropped, both controllers clear
\* their timers and their devices, the bus handler drops its subscriptions.
\* The handlers stay registered on the controllers; with deviceManager null
\* a handler that runs later throws at its lookup, which ends it as the
\* lookup in the cleared registry does here.
PluginStop ==
  /\ started
  /\ started' = FALSE
  /\ managerDevices' = {}
  /\ Commit([World EXCEPT
               !.pairs = <<>>,
               !.sonos = {},
               !.fusion = <<>>,
               !.inflight = [i \in 1..Len(@) |->
                  IF @[i].target = "fusion" THEN [@[i] EXCEPT !.live = FALSE]
                  ELSE @[i]],
               !.srcFresh = [d \in SonosIds |-> "new"],
               !.ampCause = [d \in FusionIds |-> "new"],
               !.timers = [k \in TimerKinds |->
                             IF k \in ClearedKinds THEN 0 ELSE @[k]]],
            Step("stop", "", "", 0))
  /\ UNCHANGED Physical

\* POST /pairs
CreatePair(config) ==
  /\ started
  /\ LET name == ConfigName(config)
     IN IF ~validatePairConfig(config)
        THEN Commit(World, Step("createPair", name, "", 400))
        ELSE IF ~validateDeviceAssociation(devicePairs, config.sonosDevice,
                                           config.fusionDevice).valid
             THEN Commit(World, Step("createPair", name, "", 409))
             ELSE Commit(addDevicePair(World, config),
                         Step("createPair", name, "", 201))
  /\ UNCHANGED <<started, managerDevices, Physical>>

\* PATCH /pairs/:pairName
UpdatePair(name, updates) ==
  /\ started
  /\ IF getPairByName(devicePairs, name) = {}
     THEN Commit(World, Step("updatePair", name, "", 404))
     ELSE Commit(updateDevicePair(World, name, updates),
                 Step("updatePair", name, "", 200))
  /\ UNCHANGED <<started, managerDevices, Physical>>

\* DELETE /pairs/:pairName
DeletePair(name) ==
  /\ started
  /\ IF getPairByName(devicePairs, name) = {}
     THEN Commit(World, Step("deletePair", name, "", 404))
     ELSE Commit(removeDevicePair(World, name), Step("deletePair", name, "", 200))
  /\ UNCHANGED <<started, managerDevices, Physical>>

\* POST /import with a body whose devicePairs is an array
ImportConfig(configs) ==
  /\ started
  /\ Commit(importConfiguration(World, configs), Step("import", "", "", 200))
  /\ UNCHANGED <<started, managerDevices, Physical>>

\* POST /import with a body whose devicePairs is missing or no array: throws
ImportInvalid(body) ==
  /\ started
  /\ \E r \in {importConfigurationOf(World, body)} :
       Commit(r.w, Step("import", "", "", IF r.threw THEN 400 ELSE 200))
  /\ UNCHANGED <<started, managerDevices, Physical>>

\* The SonosManager learns of a source device.
SonosDiscovered(s) ==
  /\ started
  /\ s \notin managerDevices
  /\ managerDevices' = managerDevices \cup {s}
  /\ Commit(World, Step("sonosDiscovered", "", s, 0))
  /\ UNCHANGED <<started, Physical>>

\* 'device-left': SonosController.handleDeviceUnavailable
SonosLeft(s) ==
  /\ started
  /\ s \in managerDevices
  /\ managerDevices' = managerDevices \ {s}
  /\ Commit(SonosRemoveDevice(World, s), Step("sonosLeft", "", s, 0))
  /\ UNCHANGED <<started, Physical>>

\* mDNS 'up' (or a network scan hit): FusionController.handleDeviceDiscovered
FusionDiscovered(f) ==
  /\ started
  /\ f \notin DOMAIN fusionDevices
  /\ Commit([World EXCEPT !.fusion =
               [d \in DOMAIN @ \cup {f} |->
                  IF d = f THEN FreshFusionDevice ELSE @[d]]],
            Step("fusionDiscovered", "", f, 0))
  /\ UNCHANGED <<started, managerDevices, Physical>>

\* mDNS 'down': FusionController.handleDeviceUnavailable
FusionDown(f) ==
  /\ started
  /\ f \in DOMAIN fusionDevices
  /\ Commit(FusionDrop(World, f), Step("fusionDown", "", f, 0))
  /\ UNCHANGED <<started, managerDevices, Physical>>

\* SonosController.pollDeviceState of a tracked device whose queries answer:
\* the three emits run their handlers synchronously, in this order.
SonosPoll(s, hasTrack) ==
  /\ started
  /\ Len(inflight) < MaxPending
  /\ s \in sonosDevices
  /\ \E state \in {normalizePlaybackState(srcState[s])}, volume \in {srcVolume[s]} :
       \E w1 \in {handlePlaybackStateChanged(
                    Emit(World, Event("playbackStateChanged", s, NullVolume, state)),
                    s, state)} :
       \E w2 \in {handleVolumeChanged(
                    Emit(w1, Event("volumeChanged", s, volume, "")), s, volume)} :
       \E w3 \in {IF hasTrack
                  THEN handleTrackChanged(
                         Emit(w2, Event("trackChanged", s, NullVolume, "")), s)
                  ELSE w2} :
         Commit([w3 EXCEPT !.srcFresh[s] = "clean"], Step("sonosPoll", "", s, 0))
  /\ UNCHANGED <<started, managerDevices, Physical>>

\* What the amp reports as its input in getStatus.
StatusInput(n) ==
  CASE n = 1 -> "in1" [] n = 2 -> "in2" [] n = 3 -> "in3" [] n = 4 -> "in4"
    [] n = 5 -> "in5" [] n = 6 -> "in6" [] n = 7 -> "in7" [] OTHER -> "in0"

\* The amp poller's test for a volume to report.
VolumeDiffers(statusVolume, currentVolume) == statusVolume # currentVolume

\* One device's turn in FusionController.startPolling, getStatus answering.
FusionPoll(f) ==
  /\ started
  /\ Len(inflight) < MaxPending
  /\ f \in DOMAIN fusionDevices
  /\ LET device == fusionDevices[f]
         volume == ampVolume[f]
         input == StatusInput(ampInput[f])
         changed == VolumeDiffers(volume, device.currentVolume)
         wa == IF changed
               THEN handleFusionVolumeChanged(
                      Emit([World EXCEPT !.fusion[f].currentVolume = volume],
                           Event("volumeChanged", f, volume, "")),
                      f, volume)
               ELSE World
         wb == IF input # device.currentInput
               THEN Emit([wa EXCEPT !.fusion[f].currentInput = input],
                         Event("inputChanged", f, NullVolume, input))
               ELSE wa
     IN Commit([wb EXCEPT !.ampCause[f] = "none"], Step("fusionPoll", "", f, 0))
  /\ UNCHANGED <<started, managerDevices, srcState, srcVolume, ampVolume,
                 ampInput>>

\* The answer test that takes every answer for a success.
ResponseSuccessAlways(ok) == TRUE

\* response.success: sendCommand got an answer without an HTTP error.
ResponseSuccess(ok) == ok

RemoveAt(seq, i) == [j \in 1..(Len(seq) - 1) |-> IF j < i THEN seq[j] ELSE seq[j + 1]]

\* A command in flight is answered: the device applied it (ok) or the request
\* failed; the controller's code after the await runs.
CommandComplete(i, ok) ==
  /\ i \in 1..Len(inflight)
  /\ inflight[i].op \in {"setVolume", "setInput"}
  /\ LET c == inflight[i]
         tracked == c.live /\ c.dev \in DOMAIN fusionDevices
         applied(target, op) == ok /\ c.target = target /\ c.op = op
         success(target, op) == ResponseSuccess(ok) /\ c.target = target /\ c.op = op
         w0 == [World EXCEPT !.inflight = RemoveAt(@, i)]
         w1 == IF success("fusion", "setVolume") /\ tracked
               THEN [w0 EXCEPT !.fusion[c.dev].currentVolume = FusionCachedVolume(c)]
               ELSE IF success("fusion", "setInput") /\ tracked
                    THEN [w0 EXCEPT !.fusion[c.dev].currentInput = c.sel]
                    ELSE w0
         w2 == IF applied("fusion", "setVolume") /\ w1.ampCause[c.dev] = "none"
               THEN [w1 EXCEPT !.ampCause[c.dev] = "router"]
               ELSE IF applied("sonos", "setVolume") /\ w1.srcFresh[c.dev] = "clean"
                       /\ srcVolume[c.dev] # c.wire
                    THEN [w1 EXCEPT !.srcFresh[c.dev] = "dirty"]
                    ELSE w1
     IN /\ Commit(w2, Step("complete", c.op, c.dev, IF ok THEN 200 ELSE 500))
        /\ ampVolume' = IF applied("fusion", "setVolume")
                        THEN [ampVolume EXCEPT ![c.dev] = c.wire] ELSE ampVolume
        /\ ampInput' = IF applied("fusion", "setInput")
                       THEN [ampInput EXCEPT ![c.dev] = c.wire] ELSE ampInput
        /\ srcVolume' = IF applied("sonos", "setVolume")
                        THEN [srcVolume EXCEPT ![c.dev] = c.wire] ELSE srcVolume
  /\ UNCHANGED <<started, managerDevices, srcState>>

\* One turn of the source poller for a tracked device: its queries go out.
SonosPollBegin(s) ==
  /\ started
  /\ Len(inflight) < MaxPending
  /\ s \in sonosDevices
  /\ Commit(Send(World, Command("sonos", "poll", s, 0, NullVolume, "")),
            Step("sonosPollBegin", "", s, 0))
  /\ UNCHANGED <<started, managerDevices, Physical>>

\* The queries of a source poll are answered, or one of them fails and the
\* catch of pollDeviceState logs it. The answer finds the handlers registered
\* whatever has happened to the device and the plugin in between.
SonosPollAnswer(i, ok, hasTrack) ==
  /\ i \in 1..Len(inflight)
  /\ inflight[i].target = "sonos" /\ inflight[i].op = "poll"
  /\ LET s == inflight[i].dev
         w0 == [World EXCEPT !.inflight = RemoveAt(@, i)]
         w1 == pollDeviceState(w0, s, normalizePlaybackState(srcState[s]),
                               srcVolume[s], hasTrack)
     IN IF ok
        THEN Commit([w1 EXCEPT !.srcFresh[s] =
                       IF s \in sonosDevices THEN "clean" ELSE @],
                    Step("sonosPollAnswer", "", s, 200))
        ELSE Commit(w0, Step("sonosPollAnswer", "", s, 500))
  /\ UNCHANGED <<started, managerDevices, Physical>>

\* One device's turn in FusionController.startPolling: getStatus goes out.
\* The loop holds the device object; the command carries what it caches.
FusionPollBegin(f) ==
  /\ started
  /\ Len(inflight) < MaxPending
  /\ f \in DOMAIN fusionDevices
  /\ Commit(Send(World, Command("fusion", "getStatus", f, 0,
                                fusionDevices[f].currentVolume,
                                fusionDevices[f].currentInput)),
            Step("fusionPollBegin", "", f, 0))
  /\ UNCHANGED <<started, managerDevices, Physical>>

\* getStatus is answered (or fails: the poller skips the device). The
\* comparison is made on the device object the loop holds, tracked or not.
FusionPollAnswer(i, ok) ==
  /\ i \in 1..Len(inflight)
  /\ inflight[i].target = "fusion" /\ inflight[i].op = "getStatus"
  /\ LET c == inflight[i]
         f == c.dev
         tracked == c.live /\ f \in DOMAIN fusionDevices
         currentVolume == IF tracked THEN fusionDevices[f].currentVolume ELSE c.vol
         currentInput == IF tracked THEN fusionDevices[f].currentInput ELSE c.sel
         volume == ampVolume[f]
         input == StatusInput(ampInput[f])
         w0 == [World EXCEPT !.inflight = RemoveAt(@, i)]
         wv == IF tracked THEN [w0 EXCEPT !.fusion[f].currentVolume = volume] ELSE w0
         wa == IF VolumeDiffers(volume, currentVolume)
               THEN handleFusionVolumeChanged(
                      Emit(wv, Event("volumeChanged", f, volume, "")), f, volume)
               ELSE w0
         wi == IF tracked THEN [wa EXCEPT !.fusion[f].currentInput = input] ELSE wa
         wb == IF input # currentInput
               THEN Emit(wi, Event("inputChanged", f, NullVolume, input))
               ELSE wa
     IN IF ok
        THEN Commit([wb EXCEPT !.ampCause[f] = IF tracked THEN "none" ELSE @],
                    Step("fusionPollAnswer", "", f, 200))
        ELSE Commit(w0, Step("fusionPollAnswer", "", f, 500))
  /\ UNCHANGED <<started, managerDevices, Physical>>

\* A volume control for a pair arrives on the bus while the handler is
\* subscribed: NMEA2000Handler emits 'volumeControl'.
NMEAVolumeControl(pairName, volumeChange) ==
  /\ started
  /\ Len(inflight) < MaxPending
  /\ Commit(handleNMEAVolumeControl(World, pairName, volumeChange),
            Step("volumeControl", pairName, "", 0))
  /\ UNCHANGED <<started, managerDevices, Physical>>

\* GetVolume of an adjustVolume is answered: SetVolume goes out with the
\* clamped sum; or it fails and the catch logs it.
AdjustVolumeRead(i, ok) ==
  /\ i \in 1..Len(inflight)
  /\ inflight[i].target = "sonos" /\ inflight[i].op = "getVolume"
  /\ LET c == inflight[i]
         newVolume == ClampVolume(srcVolume[c.dev] + c.wire)
         w0 == [World EXCEPT !.inflight = RemoveAt(@, i)]
     IN IF ok
        THEN Commit(Send(w0, Command("sonos", "setVolume", c.dev, newVolume,
                                     newVolume, "")),
                    Step("adjustVolumeRead", "", c.dev, 200))
        ELSE Commit(w0, Step("adjustVolumeRead", "", c.dev, 500))
  /\ UNCHANGED <<started, managerDevices, Physical>>

\* One turn of the source poller whose queries answer at once. The interval
\* timer fires whether or not the commands of earlier turns have been answered.
SonosPollQueued(s) ==
  /\ started
  /\ Len(inflight) < MaxQueue
  /\ s \in sonosDevices
  /\ Commit([pollDeviceState(World, s, normalizePlaybackState(srcState[s]),
                              srcVolume[s], TRUE)
               EXCEPT !.srcFresh[s] = "clean"],
            Step("sonosPoll", "", s, 0))
  /\ UNCHANGED <<started, managerDevices, Physical>>

\* A volume control for a pair arrives on the bus while earlier ones may be
\* unanswered: the handler does not wait for them.
NMEAVolumeControlQueued(pairName, volumeChange) ==
  /\ started
  /\ Len(inflight) < MaxQueue
  /\ Commit(handleNMEAVolumeControl(World, pairName, volumeChange),
            Step("volumeControl", pairName, "", 0))
  /\ UNCHANGED <<started, managerDevices, Physical>>

Dirty(fresh, s) == IF fresh[s] = "clean" THEN [fresh EXCEPT ![s] = "dirty"] ELSE fresh

\* A user changes the volume on the source device itself.
UserSetSourceVolume(s, v) ==
  /\ srcVolume[s] # v
  /\ srcVolume' = [srcVolume EXCEPT ![s] = v]
  /\ Commit([World EXCEPT !.srcFresh = Dirty(@, s)], Step("userSourceVolume", "", s, 0))
  /\ UNCHANGED <<started, managerDevices, srcState, ampVolume, ampInput>>

\* A user starts, pauses or stops playback on the source device.
UserSetSourceState(s, st) ==
  /\ srcState[s] # st
  /\ srcState' = [srcState EXCEPT ![s] = st]
  /\ Commit([World EXCEPT !.srcFresh = Dirty(@, s)], Step("userSourceState", "", s, 0))
  /\ UNCHANGED <<started, managerDevices, srcVolume, ampVolume, ampInput>>

\* A user turns the volume knob of the amp.
UserSetAmpVolume(f, n) ==
  /\ ampVolume[f] # n
  /\ ampVolume' = [ampVolume EXCEPT ![f] = n]
  /\ Commit([World EXCEPT !.ampCause[f] = IF @ = "new" THEN "new" ELSE "external"],
            Step("userAmpVolume", "", f, 0))
  /\ UNCHANGED <<started, managerDevices, srcState, srcVolume, ampInput>>

\* ------------------------------------------------------------ specifications
InitWith(state, volume, native) ==
  /\ started = FALSE
  /\ devicePairs = <<>>
  /\ managerDevices = {}
  /\ sonosDevices = {}
  /\ fusionDevices = <<>>
  /\ srcState = [s \in SonosIds |-> state]
  /\ srcVolume = [s \in SonosIds |-> volume]
  /\ ampVolume = [f \in FusionIds |-> native]
  /\ ampInput = [f \in FusionIds |-> 0]
  /\ inflight = <<>>
  /\ emitted = <<>>
  /\ calls = <<>>
  /\ published = <<>>
  /\ step = Step("init", "", "", 0)
  /\ srcFresh = [s \in SonosIds |-> "new"]
  /\ ampCause = [f \in FusionIds |-> "new"]
  /\ timers = [k \in TimerKinds |-> 0]
  /\ seen = NotSeen

Init == InitWith("STOPPED", 0, 0)

\* Request bodies of the registry operations: complete configurations,
\* configurations that rely on the defaults, one that needs lower-casing, and
\* configurations with a required field missing, empty or not in the enumeration.
GoodConfigs ==
  [name : {"p1"}, sonosDevice : {"s1"}, fusionDevice : {"f1"},
   fusionInput : {"aux1"}, enabled : BOOLEAN]
  \cup [name : {"p2"}, sonosDevice : SonosIds, fusionDevice : FusionIds,
        fusionInput : {"aux1"}, enabled : BOOLEAN]
  \cup {[name |-> "p2", sonosDevice |-> "s2", fusionDevice |-> "f2",
         fusionInput |-> "USB"]}

BrokenConfigs ==
  {[name |-> "p1", sonosDevice |-> "s1", fusionDevice |-> "f1"],
   [name |-> "p1", sonosDevice |-> "", fusionDevice |-> "f1", fusionInput |-> "aux1"],
   [sonosDevice |-> "s1", fusionDevice |-> "f1", fusionInput |-> "aux1"],
   [name |-> "p2", sonosDevice |-> "s1", fusionDevice |-> "f1", fusionInput |-> "HDMI"]}

PairConfigs == GoodConfigs \cup BrokenConfigs

\* PATCH bodies
PairUpdates ==
  [enabled : BOOLEAN] \cup [sonosDevice : SonosIds]
  \cup {[enabled |-> FALSE, sonosDevice |-> "s2"]}

\* options.devicePairs / the devicePairs of an import body
ListConfigs ==
  {[name |-> "p1", sonosDevice |-> "s1", fusionDevice |-> "f1", fusionInput |-> "aux1"],
   [name |-> "p2", sonosDevice |-> "s1", fusionDevice |-> "f2", fusionInput |-> "aux1"],
   [name |-> "p2", sonosDevice |-> "s2", fusionDevice |-> "f2", fusionInput |-> "USB",
    enabled |-> FALSE],
   [name |-> "p1", sonosDevice |-> "s1", fusionDevice |-> "f1"]}

ConfigLists ==
  {<<>>} \cup {<<c>> : c \in ListConfigs}
  \cup {<<c, d>> : c \in ListConfigs, d \in ListConfigs}

RegistryNext ==
  \/ \E configs \in ConfigLists : PluginStart(configs)
  \/ \E config \in PairConfigs : CreatePair(config)
  \/ \E name \in Names, updates \in PairUpdates : UpdatePair(name, updates)
  \/ \E name \in Names : DeletePair(name)
  \/ \E configs \in ConfigLists : ImportConfig(configs)
  \/ \E body \in BadBodies : ImportInvalid(body)
  \/ \E s \in SonosIds : SonosDiscovered(s)
  \/ \E s \in SonosIds : SonosLeft(s)
  \/ \E f \in FusionIds : FusionDiscovered(f)
  \/ \E f \in FusionIds : FusionDown(f)

Next == RegistryNext

Spec == Init /\ [][Next]_vars

\* ---- one pair on one source and one amp, with the pollers, the commands in
\* ---- flight and the users at the devices
SyncConfigs ==
  [name : {"p1"}, sonosDevice : {"s1"}, fusionDevice : {"f1"},
   fusionInput : {"aux1"}, volumeSync : BOOLEAN, enabled : BOOLEAN]

SyncUpdates == [volumeSync : BOOLEAN] \cup [enabled : BOOLEAN]

UserVolumes == {2}
UserStates == {"PLAYING", "PAUSED_PLAYBACK"}
UserNatives == {1}

DeviceNext ==
  \/ SonosPoll("s1", TRUE)
  \/ FusionPoll("f1")
  \/ \E i \in 1..Len(inflight), ok \in BOOLEAN : CommandComplete(i, ok)

\* The plugin has started, discovery knows s1 and f1, and POST /pairs has
\* created p1 on them: both devices are tracked.
InitSync ==
  \E config \in SyncConfigs :
    /\ config.enabled /\ config.volumeSync
    /\ started = TRUE
    /\ devicePairs = <<NewPair(config)>>
    /\ managerDevices = {"s1"}
    /\ sonosDevices = {"s1"}
    /\ fusionDevices = [f \in {"f1"} |-> FreshFusionDevice]
    /\ srcState = [s \in SonosIds |-> "STOPPED"]
    /\ srcVolume = [s \in SonosIds |-> 0]
    /\ ampVolume = [f \in FusionIds |-> 0]
    /\ ampInput = [f \in FusionIds |-> 0]
    /\ inflight = <<>>
    /\ emitted = <<>>
    /\ calls = <<>>
    /\ published = <<>>
    /\ step = Step("init", "", "", 0)
    /\ srcFresh = [s \in SonosIds |-> "new"]
    /\ ampCause = [f \in FusionIds |-> "new"]
    /\ timers = [k \in TimerKinds |-> 1]
    /\ seen = NotSeen

SyncNext ==
  \/ FusionDiscovered("f1")
  \/ \E updates \in SyncUpdates : UpdatePair("p1", updates)
  \/ \E v \in UserVolumes : UserSetSourceVolume("s1", v)
  \/ \E st \in UserStates : UserSetSourceState("s1", st)
  \/ \E n \in UserNatives : UserSetAmpVolume("f1", n)
  \/ DeviceNext

SpecSync == InitSync /\ [][SyncNext]_vars

\* ------------------------------------------------- the volume conversions
\* One pair with sync on and both devices tracked; the source stands at any
\* percent volume, or the amp at any native volume, and only the pollers and
\* the answers to their commands run.
VolConfig ==
  [name |-> "p1", sonosDevice |-> "s1", fusionDevice |-> "f1", fusionInput |-> "aux1"]

InitVol ==
  \E volume \in 0..SonosMaxVolume, native \in 0..FusionMaxVolume :
    /\ volume = 0 \/ native = 0
    /\ started = TRUE
    /\ devicePairs = <<NewPair(VolConfig)>>
    /\ managerDevices = {"s1"}
    /\ sonosDevices = {"s1"}
    /\ fusionDevices = [f \in {"f1"} |-> FreshFusionDevice]
    /\ srcState = [s \in SonosIds |-> "STOPPED"]
    /\ srcVolume = [s \in SonosIds |-> IF s = "s1" THEN volume ELSE 0]
    /\ ampVolume = [f \in FusionIds |-> IF f = "f1" THEN native ELSE 0]
    /\ ampInput = [f \in FusionIds |-> 0]
    /\ inflight = <<>>
    /\ emitted = <<>>
    /\ calls = <<>>
    /\ published = <<>>
    /\ step = Step("init", "", "", 0)
    /\ srcFresh = [s \in SonosIds |-> "new"]
    /\ ampCause = [f \in FusionIds |-> "new"]
    /\ timers = [k \in TimerKinds |-> 1]
    /\ seen = NotSeen

SpecVol == InitVol /\ [][DeviceNext]_vars

\* ---------------------------------------------------- fair polling
\* The user has just set the source volume and touches nothing else; both
\* interval timers keep firing and every command is answered successfully.
FairVolumes == {0, 1, 2, 25, 50, 75, 100}

InitFair ==
  \E volume \in FairVolumes :
    /\ started = TRUE
    /\ devicePairs = <<NewPair(VolConfig)>>
    /\ managerDevices = {"s1"}
    /\ sonosDevices = {"s1"}
    /\ fusionDevices = [f \in {"f1"} |-> FreshFusionDevice]
    /\ srcState = [s \in SonosIds |-> "STOPPED"]
    /\ srcVolume = [s \in SonosIds |-> IF s = "s1" THEN volume ELSE 0]
    /\ ampVolume = [f \in FusionIds |-> 0]
    /\ ampInput = [f \in FusionIds |-> 0]
    /\ inflight = <<>>
    /\ emitted = <<>>
    /\ calls = <<>>
    /\ published = <<>>
    /\ step = Step("userSourceVolume", "", "s1", 0)
    /\ srcFresh = [s \in SonosIds |-> "new"]
    /\ ampCause = [f \in FusionIds |-> "new"]
    /\ timers = [k \in TimerKinds |-> 1]
    /\ seen = NotSeen

Answered == \E i \in 1..Len(inflight) : CommandComplete(i, TRUE)

FairNext ==
  \/ SonosPoll("s1", TRUE)
  \/ FusionPoll("f1")
  \/ Answered

SpecFair ==
  /\ InitFair
  /\ [][FairNext]_vars
  /\ WF_vars(SonosPoll("s1", TRUE))
  /\ WF_vars(FusionPoll("f1"))
  /\ WF_vars(Answered)

\* ------------------------------------------------------- the registry alone
\* The REST operations on the registry with request bodies of every shape the
\* handlers distinguish; no device is ever discovered.
RegConfigs ==
  [name : {"p1"}, sonosDevice : {"s1"}, fusionDevice : {"f1"},
   fusionInput : {"aux1"}, enabled : BOOLEAN]
  \cup [name : {"p2"}, sonosDevice : SonosIds, fusionDevice : {"f1", "f2"},
        fusionInput : {"USB"}, enabled : BOOLEAN]
  \cup {[name |-> "p2", sonosDevice |-> "s1", fusionDevice |-> "f1",
         fusionInput |-> "HDMI"],
        [name |-> "p1", sonosDevice |-> "s1", fusionDevice |-> "f1"],
        [name |-> "p1", sonosDevice |-> "s1", fusionDevice |-> "f1",
         fusionInput |-> ""],
        [name |-> "p1", sonosDevice |-> "", fusionDevice |-> "f1",
         fusionInput |-> "aux1"],
        [name |-> "p1", sonosDevice |-> "s1", fusionInput |-> "aux1"],
        [name |-> "", sonosDevice |-> "s2", fusionDevice |-> "f2",
         fusionInput |-> "aux1"],
        [sonosDevice |-> "s2", fusionDevice |-> "f2", fusionInput |-> "aux1"]}

RegUpdates ==
  [enabled : BOOLEAN]
  \cup {[fusionInput |-> "HDMI"], [name |-> "p2"], [volumeSync |-> FALSE]}

RegLists ==
  {<<>>} \cup {<<c>> : c \in ListConfigs}
  \cup {<<c, d>> : c \in ListConfigs, d \in ListConfigs}

RegNext ==
  \/ \E configs \in RegLists : PluginStart(configs)
  \/ \E config \in RegConfigs : CreatePair(config)
  \/ \E name \in Names, updates \in RegUpdates : UpdatePair(name, updates)
  \/ \E name \in Names : DeletePair(name)
  \/ \E configs \in RegLists : ImportConfig(configs)
  \/ \E body \in BadBodies : ImportInvalid(body)

SpecReg == Init /\ [][RegNext]_vars

\* ------------------------------------------------- the plugin's life cycle
\* One source and one amp, two pairs that may share them, the plugin starting
\* and stopping, the pollers with their queries in flight, the bus control
\* and the answers, good or bad, to every request.
RunConfigs ==
  {[name |-> "p1", sonosDevice |-> "s1", fusionDevice |-> "f1",
    fusionInput |-> "aux1", volumeSync |-> FALSE],
   [name |-> "p2", sonosDevice |-> "s1", fusionDevice |-> "f1",
    fusionInput |-> "usb", volumeSync |-> FALSE]}

RunUpdates == [enabled : BOOLEAN]

RunLists == {<<>>}

RunChanges == {100}

RunNext ==
  \/ \E configs \in RunLists : PluginStart(configs)
  \/ PluginStop
  \/ SonosDiscovered("s1")
  \/ FusionDiscovered("f1")
  \/ \E config \in RunConfigs : CreatePair(config)
  \/ \E name \in Names, updates \in RunUpdates : UpdatePair(name, updates)
  \/ \E name \in Names : DeletePair(name)
  \/ UserSetSourceState("s1", "PLAYING")
  \/ SonosPollBegin("s1")
  \/ \E i \in 1..Len(inflight), ok \in BOOLEAN : SonosPollAnswer(i, ok, TRUE)
  \/ FusionPollBegin("f1")
  \/ \E i \in 1..Len(inflight), ok \in BOOLEAN : FusionPollAnswer(i, ok)
  \/ \E name \in Names, change \in RunChanges : NMEAVolumeControl(name, change)
  \/ \E i \in 1..Len(inflight), ok \in BOOLEAN : AdjustVolumeRead(i, ok)
  \/ \E i \in 1..Len(inflight), ok \in BOOLEAN : CommandComplete(i, ok)

SpecRun == Init /\ [][RunNext]_vars

\* ------------------------------------------------- the playback states
\* One pair on a tracked source and amp; the source goes through every
\* transport state the upstream library reports, in its spelling or in lower
\* case, while the pollers run.
UpstreamStates ==
  {"PLAYING", "PAUSED_PLAYBACK", "PAUSED", "STOPPED", "TRANSITIONING",
   "NO_MEDIA_PRESENT", "playing", "paused", "buffering"}

InitStates ==
  \E state \in UpstreamStates :
    /\ started = TRUE
    /\ devicePairs = <<NewPair(VolConfig)>>
    /\ managerDevices = {"s1"}
    /\ sonosDevices = {"s1"}
    /\ fusionDevices = [f \in {"f1"} |-> FreshFusionDevice]
    /\ srcState = [s \in SonosIds |-> IF s = "s1" THEN state ELSE "STOPPED"]
    /\ srcVolume = [s \in SonosIds |-> 0]
    /\ ampVolume = [f \in FusionIds |-> 0]
    /\ ampInput = [f \in FusionIds |-> 0]
    /\ inflight = <<>>
    /\ emitted = <<>>
    /\ calls = <<>>
    /\ published = <<>>
    /\ step = Step("init", "", "", 0)
    /\ srcFresh = [s \in SonosIds |-> "new"]
    /\ ampCause = [f \in FusionIds |-> "new"]
    /\ timers = [k \in TimerKinds |-> 1]
    /\ seen = NotSeen

StatesNext ==
  \/ \E st \in UpstreamStates : UserSetSourceState("s1", st)
  \/ DeviceNext

SpecStates == InitStates /\ [][StatesNext]_vars

\* ------------------------------------------------------- the statistics
\* Registries of up to MaxPairs pairs whose activity records follow one of a
\* few patterns (ascending, descending, all equal, repeating, every other
\* pair without a record); callers then record further activity on the first
\* pairs, at the time of the latest record or later.
StatNames ==
  <<"a01", "a02", "a03", "a04", "a05", "a06", "a07", "a08", "a09", "a10",
    "a11", "a12", "a13">>

StatPatterns == {"ascending", "descending", "equal", "repeating", "sparse"}

StatTime(pattern, n, i) ==
  CASE pattern = "ascending" -> i
    [] pattern = "descending" -> n + 1 - i
    [] pattern = "equal" -> 1
    [] pattern = "repeating" -> (i % 3) + 1
    [] OTHER -> IF i % 2 = 0 THEN 0 ELSE i

StatPair(pattern, n, i) ==
  [NewPair([name |-> StatNames[i], sonosDevice |-> "s1", fusionDevice |-> "f1",
            fusionInput |-> "aux1", enabled |-> FALSE])
     EXCEPT !.lastActivity =
       IF StatTime(pattern, n, i) = 0 THEN NoActivity
       ELSE [type |-> "volume", timestamp |-> StatTime(pattern, n, i)]]

\* The latest timestamp in the registry: Date.now() is not before it.
LatestActivity(pairs) ==
  IF pairs = <<>> THEN 0
  ELSE LET times == {pairs[i].lastActivity.timestamp : i \in 1..Len(pairs)}
       IN CHOOSE t \in times : \A u \in times : u <= t

ActivityTypes == {"playback", "track"}

\* A caller records activity on a pair: DeviceManager.updatePairActivity.
UpdatePairActivity(pairName, type, t) ==
  /\ started
  /\ t >= LatestActivity(devicePairs)
  /\ t >= 1
  /\ Commit(updatePairActivity(World, pairName, type, t),
            Step("activity", pairName, "", 0))
  /\ UNCHANGED <<started, managerDevices, Physical>>

InitStats ==
  \E n \in 0..MaxPairs, pattern \in StatPatterns :
    /\ started = TRUE
    /\ devicePairs = [i \in 1..n |-> StatPair(pattern, n, i)]
    /\ managerDevices = {}
    /\ sonosDevices = {}
    /\ fusionDevices = <<>>
    /\ srcState = [s \in SonosIds |-> "STOPPED"]
    /\ srcVolume = [s \in SonosIds |-> 0]
    /\ ampVolume = [f \in FusionIds |-> 0]
    /\ ampInput = [f \in FusionIds |-> 0]
    /\ inflight = <<>>
    /\ emitted = <<>>
    /\ calls = <<>>
    /\ published = <<>>
    /\ step = Step("init", "", "", 0)
    /\ srcFresh = [s \in SonosIds |-> "new"]
    /\ ampCause = [f \in FusionIds |-> "new"]
    /\ timers = [k \in TimerKinds |-> 1]
    /\ seen = NotSeen

StatsNext ==
  \E i \in 1..2, type \in ActivityTypes, t \in 1..MaxTime :
    UpdatePairActivity(StatNames[i], type, t)

SpecStats == InitStats /\ [][StatsNext]_vars

\* ------------------------------------------------- commands that overlap
\* Two pairs with sync on, p1 on (s1, f1) and p2 on (s2, f2), all four devices
\* tracked. The source poller takes its turns while earlier commands are
\* unanswered, the answers come in any order, and the user of s1 starts
\* playback and turns the volume up, never down.
QueueConfigs ==
  <<[name |-> "p1", sonosDevice |-> "s1", fusionDevice |-> "f1",
     fusionInput |-> "aux1"],
    [name |-> "p2", sonosDevice |-> "s2", fusionDevice |-> "f2",
     fusionInput |-> "usb"]>>

QueueVolumes == {50}

InitQueue ==
  /\ started = TRUE
  /\ devicePairs = [i \in 1..2 |-> NewPair(QueueConfigs[i])]
  /\ managerDevices = {"s1", "s2"}
  /\ sonosDevices = {"s1", "s2"}
  /\ fusionDevices = [f \in {"f1", "f2"} |-> FreshFusionDevice]
  /\ srcState = [s \in SonosIds |-> "STOPPED"]
  /\ srcVolume = [s \in SonosIds |-> 20]
  /\ ampVolume = [f \in FusionIds |-> 0]
  /\ ampInput = [f \in FusionIds |-> 0]
  /\ inflight = <<>>
  /\ emitted = <<>>
  /\ calls = <<>>
  /\ published = <<>>
  /\ step = Step("init", "", "", 0)
  /\ srcFresh = [s \in SonosIds |-> "new"]
  /\ ampCause = [f \in FusionIds |-> "new"]
  /\ timers = [k \in TimerKinds |-> 1]
  /\ seen = NotSeen

QueueNext ==
  \/ \E s \in SonosIds : SonosPollQueued(s)
  \/ \E i \in 1..Len(inflight), ok \in BOOLEAN : CommandComplete(i, ok)
  \/ \E v \in QueueVolumes : v > srcVolume["s1"] /\ UserSetSourceVolume("s1", v)
  \/ UserSetSourceState("s1", "PLAYING")

SpecQueue == InitQueue /\ [][QueueNext]_vars

\* ------------------------------------------------- adjustments that overlap
\* Pair p1 on a tracked source that stands at any of a few volumes; volume
\* controls arrive on the bus, up to MaxAdjusts of them overlapping, and the
\* source answers GetVolume and SetVolume in any order, or fails to.
AdjustConfig ==
  [name |-> "p1", sonosDevice |-> "s1", fusionDevice |-> "f1",
   fusionInput |-> "aux1", volumeSync |-> FALSE]

AdjustVolumes == {0, 50, 100}

AdjustChanges == {-200, -10, 0, 10, 200}

InitAdjust ==
  \E volume \in AdjustVolumes :
    /\ started = TRUE
    /\ devicePairs = <<NewPair(AdjustConfig)>>
    /\ managerDevices = {"s1"}
    /\ sonosDevices = {"s1"}
    /\ fusionDevices = [f \in {"f1"} |-> FreshFusionDevice]
    /\ srcState = [s \in SonosIds |-> "STOPPED"]
    /\ srcVolume = [s \in SonosIds |-> IF s = "s1" THEN volume ELSE 0]
    /\ ampVolume = [f \in FusionIds |-> 0]
    /\ ampInput = [f \in FusionIds |-> 0]
    /\ inflight = <<>>
    /\ emitted = <<>>
    /\ calls = <<>>
    /\ published = <<>>
    /\ step = Step("init", "", "", 0)
    /\ srcFresh = [s \in SonosIds |-> "new"]
    /\ ampCause = [f \in FusionIds |-> "new"]
    /\ timers = [k \in TimerKinds |-> 1]
    /\ seen = [NotSeen EXCEPT !.on = TRUE]

AdjustNext ==
  \/ \E change \in AdjustChanges :
       /\ AdjustPending("s1") => seen.asked["s1"] < MaxAdjusts
       /\ NMEAVolumeControlQueued("p1", change)
  \/ \E i \in 1..Len(inflight), ok \in BOOLEAN : AdjustVolumeRead(i, ok)
  \/ \E i \in 1..Len(inflight), ok \in BOOLEAN : CommandComplete(i, ok)

SpecAdjust == InitAdjust /\ [][AdjustNext]_vars

\* ------------------------------------------------- the life of a pair
\* Add, update and remove on the registry of the started plugin, with the last
\* life-cycle event of every pair name on record.
LifeNext ==
  \/ \E configs \in RunLists : PluginStart(configs)
  \/ \E config \in RegConfigs : CreatePair(config)
  \/ \E name \in Names, updates \in RegUpdates : UpdatePair(name, updates)
  \/ \E name \in Names : DeletePair(name)

InitLife ==
  /\ started = FALSE
  /\ devicePairs = <<>>
  /\ managerDevices = {}
  /\ sonosDevices = {}
  /\ fusionDevices = <<>>
  /\ srcState = [s \in SonosIds |-> "STOPPED"]
  /\ srcVolume = [s \in SonosIds |-> 0]
  /\ ampVolume = [f \in FusionIds |-> 0]
  /\ ampInput = [f \in FusionIds |-> 0]
  /\ inflight = <<>>
  /\ emitted = <<>>
  /\ calls = <<>>
  /\ published = <<>>
  /\ step = Step("init", "", "", 0)
  /\ srcFresh = [s \in SonosIds |-> "new"]
  /\ ampCause = [f \in FusionIds |-> "new"]
  /\ timers = [k \in TimerKinds |-> 0]
  /\ seen = [NotSeen EXCEPT !.on = TRUE]

SpecLife == InitLife /\ [][LifeNext]_vars

\* ------------------------------------------------- pairs loaded at start
\* plugin.start loads p1 from the options; discovery then finds the source and
\* the amp; the pollers take their turns and every command is answered. The
\* users may turn the volume at either device and disable and enable the
\* pair, and need not.
BootLists == {<<VolConfig>>}

BootNext ==
  \/ \E configs \in BootLists : PluginStart(configs)
  \/ SonosDiscovered("s1")
  \/ FusionDiscovered("f1")
  \/ \E updates \in RunUpdates : UpdatePair("p1", updates)
  \/ \E v \in UserVolumes : UserSetSourceVolume("s1", v)
  \/ \E n \in UserNatives : UserSetAmpVolume("f1", n)
  \/ SonosPoll("s1", TRUE)
  \/ FusionPoll("f1")
  \/ Answered

SpecBoot ==
  /\ Init
  /\ [][BootNext]_vars
  /\ WF_vars(SonosDiscovered("s1"))
  /\ WF_vars(FusionDiscovered("f1"))
  /\ WF_vars(SonosPoll("s1", TRUE))
  /\ WF_vars(FusionPoll("f1"))
  /\ WF_vars(Answered)

\* =================================================================== claims
\* The events of one kind among those the last step emitted.
EmittedOf(type) == {k \in 1..Len(emitted) : emitted[k].type = type}

\* The calls of one operation on one collaborator among those of the last step.
CallsOf(target, op) ==
  {k \in 1..Len(calls) : calls[k].target = target /\ calls[k].op = op}

\* C1: in every reachable state at most one enabled pair references any given
\* source device ref and at most one enabled pair references any given amp
\* device ref.
C1_UniqueEnabledRefs ==
  \A i, j \in 1..Len(devicePairs) :
    (i # j /\ devicePairs[i].enabled /\ devicePairs[j].enabled)
      => /\ devicePairs[i].sonosDevice # devicePairs[j].sonosDevice
         /\ devicePairs[i].fusionDevice # devicePairs[j].fusionDevice

\* C10: once the pairReady event for a pair has been handled, its source device
\* is tracked by the source controller and its amp device by the amp
\* controller; once pairRemoved has been handled, neither device is tracked
\* (the amp's cached state lives in its tracking entry and goes with it).
C10_PairLifecycle ==
  /\ \A k \in EmittedOf("devicePairReady") :
       /\ emitted[k].sonosDevice \in sonosDevices
       /\ emitted[k].fusionDevice \in DOMAIN fusionDevices
  /\ \A k \in EmittedOf("devicePairRemoved") :
       /\ emitted[k].sonosDevice \notin sonosDevices
       /\ emitted[k].fusionDevice \notin DOMAIN fusionDevices

\* C2: after a set-volume command the router sent to the amp has succeeded,
\* with no external change on the amp since the amp's last poll, the amp's
\* next poll emits no volumeChanged for that amp.
C2_NoEcho ==
  [][\A f \in FusionIds :
       (ampCause[f] = "router" /\ step'.op = "fusionPoll" /\ step'.dev = f)
         => \A k \in 1..Len(emitted') :
              ~(emitted'[k].type = "volumeChanged" /\ emitted'[k].dev = f)]_vars

\* C4: a poll of a tracked device whose playback state and volume are unchanged
\* since that device's previous poll emits no playback-state or volume event,
\* on the source side and on the amp side.
C4_EmitOnlyOnChange ==
  [][/\ \A s \in SonosIds :
          (srcFresh[s] = "clean" /\ step'.op = "sonosPoll" /\ step'.dev = s)
            => \A k \in 1..Len(emitted') :
                 emitted'[k].type \notin {"playbackStateChanged", "volumeChanged"}
     /\ \A f \in FusionIds :
          (ampCause[f] = "none" /\ step'.op = "fusionPoll" /\ step'.dev = f)
            => \A k \in 1..Len(emitted') : emitted'[k].type # "volumeChanged"]_vars

\* C5: a source volume event that resolves to a pair whose volumeSync is false
\* makes the router call no set-volume on the amp controller, and an amp volume
\* event that resolves to such a pair makes it call no set-volume on the source
\* controller.
C5_SyncGate ==
  /\ step.op = "sonosPoll" =>
       \A k \in EmittedOf("volumeChanged") :
         LET i == getPairBySonosDevice(devicePairs, emitted[k].dev)
         IN (i # 0 /\ ~devicePairs[i].volumeSync)
              => CallsOf("fusion", "setVolume") = {}
  /\ step.op = "fusionPoll" =>
       \A k \in EmittedOf("volumeChanged") :
         LET i == getPairByFusionDevice(devicePairs, emitted[k].dev)
         IN (i # 0 /\ ~devicePairs[i].volumeSync)
              => CallsOf("sonos", "setVolume") = {}

\* A source poll has reported a volume for a pair whose sync is off, and the
\* router has called nothing on the amp controller.
C5_Witness ==
  /\ step.op = "sonosPoll"
  /\ \E k \in EmittedOf("volumeChanged") :
       LET i == getPairBySonosDevice(devicePairs, emitted[k].dev)
       IN i # 0 /\ ~devicePairs[i].volumeSync
  /\ CallsOf("fusion", "setVolume") = {}

\* C9: for a source playback-state event that resolves to an enabled pair, the
\* router calls switchInput on the amp controller, for that pair's amp device
\* and with that pair's input selector, if and only if the state is "playing".
C9_InputSwitch ==
  step.op = "sonosPoll" =>
    \A k \in EmittedOf("playbackStateChanged") :
      LET i == getPairBySonosDevice(devicePairs, emitted[k].dev)
          switches == CallsOf("fusion", "switchInput")
      IN i # 0 =>
           IF emitted[k].str = "playing"
           THEN /\ switches # {}
                /\ \A c \in switches :
                     /\ calls[c].dev = devicePairs[i].fusionDevice
                     /\ calls[c].sel = devicePairs[i].fusionInput
           ELSE switches = {}

\* A poll has reported "playing" for the source of pair p1 and the router has
\* asked for p1's amp to be switched to p1's input.
C9_Witness ==
  /\ step.op = "sonosPoll"
  /\ \E k \in EmittedOf("playbackStateChanged") :
       emitted[k].str = "playing" /\ emitted[k].dev = "s1"
  /\ \E c \in CallsOf("fusion", "switchInput") :
       calls[c].dev = "f1" /\ calls[c].sel = "aux1"

\* C6: for a source volume event (device, v), v in 0..100, that resolves to an
\* enabled pair with volumeSync on whose amp is tracked, the command just put
\* on the wire is a set-volume to that pair's amp carrying the native value
\* n = round(v / 100 * 40), that is n - 1/2 <= 4 v / 10 < n + 1/2.
C6_ForwardConversion ==
  step.op = "sonosPoll" =>
    \A k \in EmittedOf("volumeChanged") :
      LET v == emitted[k].vol
          i == getPairBySonosDevice(devicePairs, emitted[k].dev)
      IN (i # 0 /\ devicePairs[i].volumeSync
            /\ devicePairs[i].fusionDevice \in DOMAIN fusionDevices)
           => /\ inflight # <<>>
              /\ LET c == inflight[Len(inflight)]
                 IN /\ c.target = "fusion" /\ c.op = "setVolume"
                    /\ c.dev = devicePairs[i].fusionDevice
                    /\ 10 * c.wire - 5 <= 4 * v
                    /\ 4 * v < 10 * c.wire + 5

\* A source poll has reported volume 50 and the command on the wire carries 20.
C6_Witness ==
  /\ step.op = "sonosPoll"
  /\ \E k \in EmittedOf("volumeChanged") : emitted[k].vol = 50
  /\ inflight # <<>>
  /\ inflight[Len(inflight)].op = "setVolume"
  /\ inflight[Len(inflight)].wire = 20

\* C7: for an amp volume event (device, n), n in 0..40, that resolves to an
\* enabled pair with volumeSync on, the router calls set-volume on the source
\* controller for that pair's source with the percent value
\* r = round(n / 40 * 100), that is r - 1/2 <= 5 n / 2 < r + 1/2.
C7_ReverseConversion ==
  step.op = "fusionPoll" =>
    \A k \in EmittedOf("volumeChanged") :
      LET n == emitted[k].vol
          i == getPairByFusionDevice(devicePairs, emitted[k].dev)
      IN (i # 0 /\ devicePairs[i].volumeSync)
           => \E c \in CallsOf("sonos", "setVolume") :
                /\ calls[c].dev = devicePairs[i].sonosDevice
                /\ 2 * calls[c].vol - 1 <= 5 * n
                /\ 5 * n < 2 * calls[c].vol + 1

\* C8: with v the source's volume, handing v to the source-volume handler and
\* the native value of the command it sends to the amp-volume handler makes
\* the router call set-volume on the source with a value r, |r - v| <= 1.
C8_RoundTrip ==
  LET v == srcVolume["s1"]
      forward == handleVolumeChanged(World, "s1", v).inflight
  IN Len(forward) > Len(inflight) =>
       LET sent == forward[Len(forward)]
           back == handleFusionVolumeChanged(World, sent.dev, sent.wire).calls
       IN back # <<>> =>
            LET r == back[Len(back)].vol
            IN r - v <= 1 /\ v - r <= 1

\* The state the volume is to settle in: source at v, amp at round(v / 100 * 40),
\* and the last step made no set-volume call.
C3_Settled(v) ==
  /\ srcVolume["s1"] = v
  /\ 10 * ampVolume["f1"] - 5 <= 4 * v
  /\ 4 * v < 10 * ampVolume["f1"] + 5
  /\ CallsOf("fusion", "setVolume") = {}
  /\ CallsOf("sonos", "setVolume") = {}

\* C3: after the user has set the source volume to v and with nothing else
\* touched, under fair polling the system reaches and stays in a state where
\* the source is still at v, the amp is at round(v / 100 * 40), and no step
\* makes a set-volume call any more.
C3_VolumeFollows ==
  \A v \in FairVolumes : (srcVolume["s1"] = v) => <>[]C3_Settled(v)

\* The events of one kind among those the next state holds.
EmittedNextOf(type) == {k \in 1..Len(emitted') : emitted'[k].type = type}

\* C11: an update of an existing pair emits exactly one devicePairReady when
\* enabled goes false -> true, exactly one devicePairRemoved when it goes
\* true -> false, and neither event when the flag does not change.
C11_UpdateEvents ==
  [][\A name \in Names :
       (step'.op = "updatePair" /\ step'.key = name /\ step'.status = 200)
         => LET old == MapGet(devicePairs, name).enabled
                new == MapGet(devicePairs', name).enabled
            IN /\ Cardinality(EmittedNextOf("devicePairReady"))
                    = (IF ~old /\ new THEN 1 ELSE 0)
               /\ Cardinality(EmittedNextOf("devicePairRemoved"))
                    = (IF old /\ ~new THEN 1 ELSE 0)]_vars

\* An update has just enabled a pair and exactly one devicePairReady was emitted.
C11_Witness ==
  /\ step.op = "updatePair" /\ step.status = 200
  /\ Cardinality(EmittedOf("devicePairReady")) = 1
  /\ EmittedOf("devicePairRemoved") = {}

\* A request body in which a required field is missing or empty.
MissingRequired(config) ==
  \E f \in {"name", "sonosDevice", "fusionDevice", "fusionInput"} :
    f \notin DOMAIN config \/ config[f] = ""

C13_CanonicalInput ==
  \A i \in 1..Len(devicePairs) :
    devicePairs[i].fusionInput \in {"aux1", "aux2", "aux3", "usb", "bluetooth", "am", "fm"}

\* C14: in every reachable state each stored pair's name equals the key it is
\* stored under, so getPairByName(n) yields a pair named n or nothing.
C14_NameIsKey ==
  \A i \in 1..Len(devicePairs) : devicePairs[i].name = devicePairs[i].key

\* C15: removeDevicePair of a name the registry does not hold leaves the
\* registry and both controllers as they were and emits no devicePairRemoved.
C15_RemoveAbsent ==
  \A name \in Names :
    (\A i \in 1..Len(devicePairs) : devicePairs[i].key # name)
      => LET w == removeDevicePair(World, name)
         IN /\ w.pairs = devicePairs
            /\ w.emitted = <<>>
            /\ w.sonos = sonosDevices
            /\ w.fusion = fusionDevices

\* The registry holds one pair, and a removal of the other name has just been
\* asked for.
C15_Witness ==
  /\ Len(devicePairs) = 1
  /\ step.op = "deletePair"
  /\ \A i \in 1..Len(devicePairs) : devicePairs[i].key # step.key

\* C16: updateDevicePair of a name the registry does not hold fails with an
\* error its caller receives, leaves the registry as it was and emits nothing.
C16_UpdateAbsent ==
  \A name \in Names :
    (\A i \in 1..Len(devicePairs) : devicePairs[i].key # name)
      => /\ updateDevicePairThrows(devicePairs, name)
         /\ \A updates \in RegUpdates :
              LET w == updateDevicePair(World, name, updates)
              IN w.pairs = devicePairs /\ w.emitted = <<>>

\* The enabled pairs that reference a source device / an amp device.
SourceHits(s) ==
  {i \in 1..Len(devicePairs) : devicePairs[i].enabled /\ devicePairs[i].sonosDevice = s}
AmpHits(f) ==
  {i \in 1..Len(devicePairs) : devicePairs[i].enabled /\ devicePairs[i].fusionDevice = f}

\* The conflicts of one kind in a validation result.
ConflictsOf(v, kind) == {k \in 1..Len(v.conflicts) : v.conflicts[k][1] = kind}

\* C17: validateDeviceAssociation(s, f) returns valid:false with exactly one
\* conflict per colliding enabled pair, each naming its pair, and valid:true
\* with no conflicts when no enabled pair references s or f.
C17_OnePerPair ==
  \A s \in SonosIds, f \in FusionIds :
    LET v == validateDeviceAssociation(devicePairs, s, f)
        colliding == SourceHits(s) \cup AmpHits(f)
    IN /\ v.valid = (colliding = {})
       /\ Len(v.conflicts) = Cardinality(colliding)
       /\ {v.conflicts[k][2] : k \in 1..Len(v.conflicts)}
            = {devicePairs[i].name : i \in colliding}

\* C17, amended: validateDeviceAssociation(s, f) returns one conflict for the
\* source device exactly when some enabled pair references s and one for the
\* amp device exactly when some enabled pair references f, each naming such a
\* pair; valid is true exactly when there is neither; disabled pairs count
\* for nothing.
C17_OnePerDevice ==
  \A s \in SonosIds, f \in FusionIds :
    LET v == validateDeviceAssociation(devicePairs, s, f)
    IN /\ v.valid = (SourceHits(s) = {} /\ AmpHits(f) = {})
       /\ v.valid = (v.conflicts = <<>>)
       /\ Cardinality(ConflictsOf(v, "sonos")) = (IF SourceHits(s) = {} THEN 0 ELSE 1)
       /\ Cardinality(ConflictsOf(v, "fusion")) = (IF AmpHits(f) = {} THEN 0 ELSE 1)
       /\ ConflictsOf(v, "sonos") \cup ConflictsOf(v, "fusion") = 1..Len(v.conflicts)
       /\ \A k \in ConflictsOf(v, "sonos") :
            v.conflicts[k][2] \in {devicePairs[i].name : i \in SourceHits(s)}
       /\ \A k \in ConflictsOf(v, "fusion") :
            v.conflicts[k][2] \in {devicePairs[i].name : i \in AmpHits(f)}

\* A create request has just been refused for a conflict; one enabled pair
\* collides on both devices of some request and a disabled pair references one
\* of them too.
C17_Witness ==
  /\ step.op = "createPair" /\ step.status = 409
  /\ \E s \in SonosIds, f \in FusionIds :
       /\ Len(validateDeviceAssociation(devicePairs, s, f).conflicts) = 2
       /\ SourceHits(s) = AmpHits(f)
       /\ \E i \in 1..Len(devicePairs) :
            ~devicePairs[i].enabled /\ devicePairs[i].sonosDevice = s

\* The source or the amp of a create request is referenced by an enabled pair.
Conflicting(config) ==
  \/ "sonosDevice" \in DOMAIN config /\ SourceHits(config.sonosDevice) # {}
  \/ "fusionDevice" \in DOMAIN config /\ AmpHits(config.fusionDevice) # {}

\* The outcome the claim gives a refused create request: a conflict error
\* with a non-empty conflict list, no pair stored, no devicePairReady.
RefusedForConflict(config) ==
  /\ step'.op = "createPair" /\ step'.status = 409
  /\ validateDeviceAssociation(devicePairs, config.sonosDevice,
                               config.fusionDevice).conflicts # <<>>
  /\ devicePairs' = devicePairs
  /\ EmittedNextOf("devicePairReady") = {}

\* C18: a create request whose source or amp is already referenced by an
\* enabled pair is answered with a conflict error listing the conflicts,
\* stores no pair, leaves the existing pairs unchanged and emits no
\* devicePairReady.
C18_CreateConflict ==
  [][\A config \in RegConfigs :
       (Conflicting(config) /\ CreatePair(config))
         => /\ step'.status = 409
            /\ devicePairs' = devicePairs
            /\ EmittedNextOf("devicePairReady") = {}]_vars

\* C18, amended: a create request that passes validatePairConfig and whose
\* source or amp is already referenced by an enabled pair is answered with a
\* conflict error listing the conflicts, stores no pair, leaves the existing
\* pairs unchanged and emits no devicePairReady.
C18_ValidCreateConflict ==
  [][\A config \in RegConfigs :
       (~MissingRequired(config)
          /\ ToLowerCase(config.fusionInput) \in ValidInputs
          /\ Conflicting(config) /\ CreatePair(config))
         => RefusedForConflict(config)]_vars

\* A create request for a new pair name has just been refused for a conflict.
C18_Witness ==
  /\ step.op = "createPair" /\ step.status = 409 /\ step.key = "p2"
  /\ ~HasKey(devicePairs, "p2")
  /\ emitted = <<>>

\* The pairs of a registry, each reduced to the six exported fields.
PairSet(pairs) ==
  {[name |-> pairs[i].name,
    sonosDevice |-> pairs[i].sonosDevice,
    fusionDevice |-> pairs[i].fusionDevice,
    fusionInput |-> pairs[i].fusionInput,
    volumeSync |-> pairs[i].volumeSync,
    enabled |-> pairs[i].enabled] : i \in 1..Len(pairs)}

\* C19: importing the export of the registry into a fresh registry yields the
\* same set of pairs, equal on name, sonosDevice, fusionDevice, fusionInput,
\* volumeSync and enabled.
C19_ExportImportRoundTrip ==
  PairSet(importConfiguration([World EXCEPT !.pairs = <<>>],
                              exportConfiguration(devicePairs)).pairs)
    = PairSet(devicePairs)

\* C20: an import whose body has no devicePairs, or one that is not an array,
\* fails with an error and is atomic: the registry holds the same pairs as
\* before and no lifecycle event is emitted.
C20_ImportAtomic ==
  [][\A body \in BadBodies :
       ImportInvalid(body)
         => /\ step'.op = "import" /\ step'.status = 400
            /\ devicePairs' = devicePairs
            /\ emitted' = <<>>]_vars

\* An import has just been refused while the registry holds a pair.
C20_Witness ==
  /\ step.op = "import" /\ step.status = 400
  /\ devicePairs # <<>>

\* The positions of the valid records of an import list, and among them those
\* that no later valid record of the same name follows.
ValidRecords(configs) ==
  {k \in 1..Len(configs) :
     ~MissingRequired(configs[k])
       /\ ToLowerCase(configs[k].fusionInput) \in ValidInputs}
LastValidRecords(configs) ==
  {k \in ValidRecords(configs) :
     \A j \in ValidRecords(configs) : j > k => configs[j].name # configs[k].name}

\* The pair a valid record stands for, reduced to the six exported fields.
RecordPair(config) ==
  [name |-> config.name,
   sonosDevice |-> config.sonosDevice,
   fusionDevice |-> config.fusionDevice,
   fusionInput |-> ToLowerCase(config.fusionInput),
   volumeSync |-> ("volumeSync" \notin DOMAIN config \/ config.volumeSync),
   enabled |-> ("enabled" \notin DOMAIN config \/ config.enabled)]

\* C21: after an import of a list of records the registry contains exactly the
\* valid records of the list: every pair that was there before and is not in
\* the list is gone, and an invalid record is skipped without aborting the
\* import of the valid records before and after it.
C21_ImportReplaces ==
  [][\A configs \in RegLists :
       ImportConfig(configs)
         => PairSet(devicePairs')
              = {RecordPair(configs[k]) : k \in ValidRecords(configs)}]_vars

\* C21, amended: after an import of a list of records the registry contains,
\* for each name carried by a valid record of the list, the last valid record
\* of that name and nothing else: pairs not in the list are gone, invalid
\* records are skipped, and the valid records before and after them are
\* imported.
C21_ImportReplacesLastWins ==
  [][\A configs \in RegLists :
       ImportConfig(configs)
         => /\ PairSet(devicePairs')
                 = {RecordPair(configs[k]) : k \in LastValidRecords(configs)}
            /\ Len(devicePairs') = Cardinality(LastValidRecords(configs))
            /\ \A i \in 1..Len(devicePairs') :
                 devicePairs'[i].key = devicePairs'[i].name]_vars

\* An import has just replaced a registry that held p1 by the single disabled
\* pair p2.
C21_Witness ==
  /\ step.op = "import" /\ step.status = 200
  /\ Len(devicePairs) = 1
  /\ devicePairs[1].name = "p2" /\ ~devicePairs[1].enabled

\* The events of one kind for one device among those the next state records.
EventsNextOf(type, dev) ==
  {k \in 1..Len(emitted') : emitted'[k].type = type /\ emitted'[k].dev = dev}

\* The publications of one field of one pair among those the next state records.
PublishedNextOf(pairName, field) ==
  {k \in 1..Len(published') : published'[k] = <<pairName, field>>}

\* C22: after the router has handled a source playback-state, volume or track
\* event that resolves to an enabled pair (volumeSync on or off), that pair's
\* lastActivity is a record, no longer null.
C22_ActivityRecorded ==
  [][\A s \in SonosIds :
       LET i == getPairBySonosDevice(devicePairs, s)
       IN (step'.op = "sonosPoll" /\ step'.dev = s /\ i # 0
             /\ EventsNextOf("playbackStateChanged", s) # {})
            => devicePairs'[i].lastActivity # NoActivity]_vars

\* C23: every source playback-state event and every source track event that
\* resolves to an enabled pair produces a status publication for that pair,
\* one per event, whether the pair's volumeSync is on or off.
C23_VisibilityUnconditional ==
  [][\A s \in SonosIds :
       LET i == getPairBySonosDevice(devicePairs, s)
       IN (step'.op = "sonosPoll" /\ step'.dev = s /\ i # 0)
            => /\ Cardinality(PublishedNextOf(devicePairs[i].name, "playbackState"))
                    = Cardinality(EventsNextOf("playbackStateChanged", s))
               /\ Cardinality(PublishedNextOf(devicePairs[i].name, "currentTrack"))
                    = Cardinality(EventsNextOf("trackChanged", s))
               /\ EventsNextOf("playbackStateChanged", s) # {}]_vars

\* A poll of the source has just been handled for an enabled pair whose
\* volumeSync is off: state and track were published, the volume was not.
C23_Witness ==
  /\ step.op = "sonosPoll"
  /\ \E i \in 1..Len(devicePairs) :
       /\ devicePairs[i].enabled /\ ~devicePairs[i].volumeSync
       /\ devicePairs[i].sonosDevice = step.dev
       /\ published = << <<devicePairs[i].name, "playbackState">>,
                         <<devicePairs[i].name, "currentTrack">> >>

\* C24: while a pair is disabled no inbound event causes a command on its
\* behalf; in particular a bus volume control addressed to it by name sends
\* nothing to its source device, also when that device is tracked for another
\* pair that is enabled.
C24_DisabledTakesNoPart ==
  [][\A name \in Names :
       (/\ step'.op = "volumeControl" /\ step'.key = name
        /\ HasKey(devicePairs, name)
        /\ ~MapGet(devicePairs, name).enabled)
         => inflight' = inflight]_vars

\* No enabled pair references the device of the next state's step, as a source
\* or as an amp.
UnreferencedSource ==
  \A i \in 1..Len(devicePairs) :
    ~(devicePairs[i].enabled /\ devicePairs[i].sonosDevice = step'.dev)
UnreferencedAmp ==
  \A i \in 1..Len(devicePairs) :
    ~(devicePairs[i].enabled /\ devicePairs[i].fusionDevice = step'.dev)

\* C25: an event whose device is referenced by no enabled pair when it is
\* handled is dropped: no collaborator call, no request to a device, no
\* publication, the registry as it was; so for the events of a poll that is
\* answered after its pair was removed or disabled.
C25_UnreferencedDropped ==
  [][(\/ step'.op = "sonosPollAnswer" /\ step'.status = 200 /\ UnreferencedSource
      \/ step'.op = "fusionPollAnswer" /\ step'.status = 200 /\ UnreferencedAmp)
       => /\ calls' = <<>>
          /\ published' = <<>>
          /\ devicePairs' = devicePairs
          /\ Len(inflight') = Len(inflight) - 1]_vars

\* The events of a source poll have just been handled while the plugin runs
\* and the registry holds a pair on that source, but none that is enabled.
C25_Witness ==
  /\ started
  /\ step.op = "sonosPollAnswer" /\ step.status = 200
  /\ Len(emitted) = 3
  /\ \E i \in 1..Len(devicePairs) : devicePairs[i].sonosDevice = step.dev
  /\ \A i \in 1..Len(devicePairs) :
       devicePairs[i].sonosDevice = step.dev => ~devicePairs[i].enabled

\* C26: once plugin.stop has returned, and until the plugin is started again,
\* no step makes a collaborator call (switchInput, setVolume, adjustVolume) or
\* publishes a status, also not the step in which a poll that was in flight
\* at the stop is answered and delivers its events to the handlers.
C26_QuietAfterStop ==
  ~started => (calls = <<>> /\ published = <<>>)

\* The plugin is stopped and a source poll that was in flight has just been
\* answered and has delivered its events.
C26_Witness ==
  /\ ~started
  /\ step.op = "sonosPollAnswer" /\ step.status = 200
  /\ emitted # <<>>

\* C27: no periodic timer is leaked: while the plugin is stopped no timer of
\* any kind is scheduled, and while it runs, after any number of start/stop
\* cycles, at most one of each kind.
C27_NoTimerLeak ==
  \A k \in TimerKinds : timers[k] <= (IF started THEN 1 ELSE 0)

\* The activity records of the registry, by position, and the position of
\* the pair an entry of the statistics names.
WithActivity == {i \in 1..Len(devicePairs) : devicePairs[i].lastActivity # NoActivity}
PositionOf(entry) == CHOOSE i \in 1..Len(devicePairs) : devicePairs[i].name = entry.pairName

\* One activity record ranks before another: it is later, or as late and of
\* a pair inserted earlier.
RanksBefore(i, j) ==
  \/ devicePairs[i].lastActivity.timestamp > devicePairs[j].lastActivity.timestamp
  \/ /\ devicePairs[i].lastActivity.timestamp = devicePairs[j].lastActivity.timestamp
     /\ i < j

\* C28: for any population of pairs and activity records,
\* statistics().recentActivity has at most 10 entries, holds the most recent
\* activity records across all pairs, and is ordered by timestamp descending
\* with ties in insertion order.
C28_RecentActivity ==
  LET recent == getDeviceStatistics(devicePairs, MaxTime).recentActivity
      shown == {PositionOf(recent[k]) : k \in 1..Len(recent)}
  IN /\ Len(recent) <= 10
     /\ Len(recent) = (IF Cardinality(WithActivity) < 10
                       THEN Cardinality(WithActivity) ELSE 10)
     /\ Cardinality(shown) = Len(recent)
     /\ shown \subseteq WithActivity
     /\ \A k \in 1..Len(recent) :
          /\ recent[k].timestamp = devicePairs[PositionOf(recent[k])].lastActivity.timestamp
          /\ recent[k].type = devicePairs[PositionOf(recent[k])].lastActivity.type
     /\ \A i \in shown, j \in WithActivity \ shown : RanksBefore(i, j)
     /\ \A k, l \in 1..Len(recent) :
          k < l => RanksBefore(PositionOf(recent[k]), PositionOf(recent[l]))

\* A caller has just recorded activity in a registry that holds more than ten
\* activity records, two of the ten shown being equally late.
C28_Witness ==
  /\ step.op = "activity"
  /\ Cardinality(WithActivity) > 10
  /\ LET recent == getDeviceStatistics(devicePairs, MaxTime).recentActivity
     IN /\ Len(recent) = 10
        /\ \E k \in 1..9 : recent[k].timestamp = recent[k + 1].timestamp

\* The five playback states of the router and the fixed table onto them.
PlaybackStates == {"playing", "paused", "stopped", "transitioning", "unknown"}
StateTable(upstream) ==
  CASE upstream \in {"PLAYING", "playing"} -> "playing"
    [] upstream \in {"PAUSED", "paused", "PAUSED_PLAYBACK"} -> "paused"
    [] upstream \in {"STOPPED"} -> "stopped"
    [] upstream \in {"TRANSITIONING"} -> "transitioning"
    [] OTHER -> "unknown"

\* C29: every playback state the source controller delivers to the router is
\* one of playing, paused, stopped, transitioning, unknown, obtained from the
\* device's transport state by the fixed table (playing -> playing, paused and
\* paused_playback -> paused, stopped -> stopped, transitioning ->
\* transitioning, anything else -> unknown); it is what the router publishes.
C29_StatesNormalized ==
  \A k \in EmittedOf("playbackStateChanged") :
    /\ emitted[k].str \in PlaybackStates
    /\ emitted[k].str = StateTable(srcState[emitted[k].dev])

\* A poll has just delivered the state of a source that reports a transport
\* state outside the table.
C29_Witness ==
  /\ step.op = "sonosPoll"
  /\ srcState[step.dev] = "NO_MEDIA_PRESENT"
  /\ \E k \in EmittedOf("playbackStateChanged") : emitted[k].str = "unknown"

\* The next state's step is the failure of a command a handler had sent to a
\* device: a setVolume or setInput, or the GetVolume of an adjustVolume.
CommandFailed ==
  /\ step'.op \in {"complete", "adjustVolumeRead"}
  /\ step'.status = 500

\* C30: a failed collaborator command ends with the event it was issued for:
\* nothing is sent again in its place, no pair changes (enabled and status
\* included), and all that the handling of the next event reads, the
\* registry, the tracked devices with their cached state and the devices
\* themselves, is as it was.
C30_FailureIsTerminal ==
  [][CommandFailed
       => /\ Len(inflight') = Len(inflight) - 1
          /\ \A k \in 1..Len(inflight') : \E j \in 1..Len(inflight) : inflight'[k] = inflight[j]
          /\ calls' = <<>>
          /\ published' = <<>>
          /\ emitted' = <<>>
          /\ devicePairs' = devicePairs
          /\ sonosDevices' = sonosDevices
          /\ fusionDevices' = fusionDevices
          /\ UNCHANGED <<started, managerDevices, srcState, srcVolume, ampVolume,
                         ampInput, timers>>]_vars

\* An input switch sent for an enabled pair has just failed while its amp is
\* tracked.
C30_Witness ==
  /\ started
  /\ step.op = "complete" /\ step.key = "setInput" /\ step.status = 500
  /\ step.dev \in DOMAIN fusionDevices
  /\ \E i \in 1..Len(devicePairs) :
       devicePairs[i].enabled /\ devicePairs[i].fusionDevice = step.dev

\* The wire operation a controller call leads to.
WireOp(op) == IF op = "switchInput" THEN "setInput" ELSE op

\* The commands the step has put on the wire, in the order it sent them.
IssuedNext == SubSeq(inflight', Len(inflight) + 1, Len(inflight'))

\* C31: for two events arriving for the same pair the commands they cause are
\* issued in arrival order, the later event's command without waiting for the
\* earlier one's answer and whatever events of other pairs come in between: a
\* poller turn leaves the unanswered commands where they are, in their order,
\* and sends one command for each call of its handlers, after them and in the
\* order of the calls.
C31_ArrivalOrder ==
  [][step'.op = "sonosPoll" =>
       /\ Len(inflight') >= Len(inflight)
       /\ SubSeq(inflight', 1, Len(inflight)) = inflight
       /\ Len(IssuedNext) = Len(calls')
       /\ Len(calls') >= 1
       /\ \A k \in 1..Len(calls') :
            /\ IssuedNext[k].target = calls'[k].target
            /\ IssuedNext[k].dev = calls'[k].dev
            /\ IssuedNext[k].op = WireOp(calls'[k].op)
            /\ calls'[k].op = "setVolume" => IssuedNext[k].vol = calls'[k].vol]_vars

\* Two set-volume commands of p1 are unanswered, a command of p2 was sent
\* between them, and the poller's last turn has sent the later one.
C31_Witness ==
  /\ step.op = "sonosPoll" /\ step.dev = "s1"
  /\ \E i, j, k \in 1..Len(inflight) :
       /\ i < j /\ j < k /\ k = Len(inflight)
       /\ inflight[i].dev = "f1" /\ inflight[i].op = "setVolume" /\ inflight[i].vol = 20
       /\ inflight[j].dev = "f2"
       /\ inflight[k].dev = "f1" /\ inflight[k].op = "setVolume" /\ inflight[k].vol = 50

Max(a, b) == IF a >= b THEN a ELSE b

\* C36: when two set-volume commands for one amp are in flight and complete in
\* any order, the cached baseline (currentVolume) afterwards is that of the
\* command issued last. Where the source volume only rises, the command issued
\* later carries the higher volume: a successful answer to a set-volume of a
\* tracked amp leaves the higher of the baseline and the command's volume.
C36_BaselineOfLastIssued ==
  [][\A i \in 1..Len(inflight) :
       (/\ step'.op = "complete" /\ step'.status = 200
        /\ inflight' = RemoveAt(inflight, i)
        /\ inflight[i].target = "fusion" /\ inflight[i].op = "setVolume"
        /\ inflight[i].live
        /\ step'.dev = inflight[i].dev)
       => fusionDevices'[inflight[i].dev].currentVolume =
            Max(fusionDevices[inflight[i].dev].currentVolume, inflight[i].vol)]_vars

\* C37: bus volume adjustments are not lost under interleaving: when two
\* requests with changes d1 and d2 for one pair are handled while the source
\* stands at v and nothing else changes it, then once both are through, with
\* their read-volume and set-volume steps interleaved in any way and none of
\* them failed, the source stands at clamp(v + d1 + d2, 0, 100).
C37_NoLostAdjust ==
  \A s \in SonosIds :
    (/\ seen.on /\ seen.asked[s] = 2
     /\ ~AdjustPending(s) /\ ~seen.failed[s])
    => LET sum == seen.base[s] + seen.sum[s]
       IN /\ sum \in 0..SonosMaxVolume => srcVolume[s] = sum
          /\ sum < 0 => srcVolume[s] = 0
          /\ sum > SonosMaxVolume => srcVolume[s] = SonosMaxVolume

\* C38: for a tracked source at volume v in 0..100 and any integer change,
\* adjustVolume sets the volume to max(0, min(100, v + change)): the SetVolume
\* it sends once GetVolume has answered v carries that value, which lies in
\* 0..100, and its answer leaves the source at it.
C38_AdjustClamped ==
  [][/\ \A i \in 1..Len(inflight) :
          (/\ step'.op = "adjustVolumeRead" /\ step'.status = 200
           /\ inflight[i].target = "sonos" /\ inflight[i].op = "getVolume"
           /\ step'.dev = inflight[i].dev
           /\ RemoveAt(inflight, i) = SubSeq(inflight', 1, Len(inflight) - 1))
          => LET sent == inflight'[Len(inflight')]
                 sum == srcVolume[inflight[i].dev] + inflight[i].wire
             IN /\ Len(inflight') = Len(inflight)
                /\ sent.target = "sonos" /\ sent.op = "setVolume"
                /\ sent.dev = inflight[i].dev
                /\ sent.wire \in 0..SonosMaxVolume
                /\ sum \in 0..SonosMaxVolume => sent.wire = sum
                /\ sum < 0 => sent.wire = 0
                /\ sum > SonosMaxVolume => sent.wire = SonosMaxVolume
     /\ \A i \in 1..Len(inflight) :
          (/\ step'.op = "complete" /\ step'.status = 200
           /\ inflight[i].target = "sonos" /\ inflight[i].op = "setVolume"
           /\ step'.dev = inflight[i].dev
           /\ inflight' = RemoveAt(inflight, i))
          => \E j \in 1..Len(inflight) :
               /\ inflight[j].target = "sonos" /\ inflight[j].op = "setVolume"
               /\ srcVolume'[step'.dev] = inflight[j].wire
               /\ srcVolume'[step'.dev] \in 0..SonosMaxVolume]_vars

\* GetVolume has answered 50 to an adjustment by -200 and SetVolume(0) is on
\* its way; and an adjustment has left the source at 100 from below.
C38_Witness ==
  /\ step.op = "adjustVolumeRead" /\ step.status = 200 /\ step.dev = "s1"
  /\ srcVolume["s1"] = 50
  /\ inflight # <<>>
  /\ inflight[Len(inflight)].op = "setVolume"
  /\ inflight[Len(inflight)].wire = 0

\* The enabled pairs other than the named one that the step leaves as they are.
OtherEnabledKept(name) ==
  {i \in 1..Len(devicePairs) :
     /\ devicePairs[i].key # name /\ devicePairs[i].enabled
     /\ \E j \in 1..Len(devicePairs') : devicePairs'[j] = devicePairs[i]}

\* C32: removing or disabling pair A never stops the tracking of a device that
\* another enabled pair B still references: a DELETE or PATCH of A leaves
\* tracked every tracked device of every enabled pair B it does not touch.
C32_SharedDeviceKept ==
  [][step'.op \in {"deletePair", "updatePair"} =>
       \A i \in OtherEnabledKept(step'.key) :
         /\ devicePairs[i].sonosDevice \in sonosDevices
              => devicePairs[i].sonosDevice \in sonosDevices'
         /\ devicePairs[i].fusionDevice \in DOMAIN fusionDevices
              => devicePairs[i].fusionDevice \in DOMAIN fusionDevices']_vars

\* The enabled pair records of the registry that the step does not keep
\* enabled: an update works on the stored record, which stays the record it
\* was; every other operation that stores a pair stores a new record.
LeftEnabled ==
  {i \in 1..Len(devicePairs) :
     /\ devicePairs[i].enabled
     /\ IF step'.op = "updatePair"
        THEN ~\E j \in 1..Len(devicePairs') :
                devicePairs'[j].key = devicePairs[i].key /\ devicePairs'[j].enabled
        ELSE ~\E j \in 1..Len(devicePairs') : devicePairs'[j] = devicePairs[i]}

\* The step's events of one type about one pair name.
PairEventsNextOf(type, name) ==
  {k \in 1..Len(emitted') : emitted'[k].type = type /\ emitted'[k].name = name}

\* C33: every pair record that leaves the set of enabled registered pairs gets
\* a pairRemoved event, whatever the cause (remove, disable, import, overwrite
\* by an add with a used name, registry stop); hence no device stays tracked
\* for a pair that is no longer enabled in the registry.
C33_EveryLeaveAnnounced ==
  [][\A i \in LeftEnabled :
       /\ PairEventsNextOf("devicePairRemoved", devicePairs[i].name) # {}
       /\ getPairBySonosDevice(devicePairs', devicePairs[i].sonosDevice) = 0
            => devicePairs[i].sonosDevice \notin sonosDevices'
       /\ getPairByFusionDevice(devicePairs', devicePairs[i].fusionDevice) = 0
            => devicePairs[i].fusionDevice \notin DOMAIN fusionDevices']_vars

\* C34: life-cycle events alternate per pair name: over any sequence of add,
\* update and remove, pairRemoved is emitted for a pair only if pairReady was
\* emitted for it more recently than any earlier pairRemoved; never two
\* pairRemoved in a row, never a pairRemoved without a pairReady before it.
C34_LifecycleAlternates ==
  [][\A k \in 1..Len(emitted') :
       (emitted'[k].type = "devicePairRemoved" /\ emitted'[k].key \in Names)
       => seen.life[emitted'[k].key] = "ready"]_vars

\* The enabled pair p1 is in the registry and discovery has found both its
\* devices.
C35_Discovered ==
  /\ started
  /\ \E i \in 1..Len(devicePairs) :
       /\ devicePairs[i].enabled
       /\ devicePairs[i].sonosDevice = "s1" /\ devicePairs[i].fusionDevice = "f1"
  /\ "s1" \in managerDevices
  /\ "f1" \in DOMAIN fusionDevices

\* Both devices of p1 are tracked and a source poll has just emitted its
\* events.
C35_Flowing ==
  /\ "s1" \in sonosDevices
  /\ "f1" \in DOMAIN fusionDevices
  /\ EmittedOf("volumeChanged") # {}

\* C35: a pair that became ready before its devices were known to the
\* controllers (loaded at plugin start) is eventually tracked: once both
\* devices have been discovered, and unless a further registry operation
\* comes, the controllers track the pair's devices and sync events flow.
C35_EventuallyTracked ==
  C35_Discovered ~> (C35_Flowing \/ step.op = "updatePair")
====
